---- MODULE Spec2Model ----
(***************************************************************************)
(* A model of renderkit's render pass: style resolution (src/src/style.rs, *)
(* src/src/css.rs), box layout (src/src/layout.rs), painting               *)
(* (src/src/painting.rs) and the driver RenderKit::render (src/src/lib.rs).*)
(*                                                                         *)
(* Numbers.  The code computes lengths in f32.  Every length of the model  *)
(* is an integer counting HALF pixels: Px(n) is n px.  Style lengths are   *)
(* whole pixels, the only division of the code is underflow / 2.0, and     *)
(* sums, differences and halves of such small values are exact in f32, so  *)
(* the integer arithmetic below is the code's arithmetic.                  *)
(*                                                                         *)
(* Strings that the code takes apart (the class attribute) are sequences   *)
(* of one-character strings; class names are such sequences too.           *)
(* Option<T> is a set with at most one element.                            *)
(***************************************************************************)
EXTENDS Integers, Sequences, FiniteSets, TLC

VARIABLES
    pc,               \* position of the pass
    dom,              \* the markup tree (dom::Node)
    stylesheet,       \* css::Stylesheet.rules
    styled_node,      \* the styled tree (style::StyledNode)
    containing_block, \* the Dimensions layout is invoked with
    layout_root,      \* the layout tree (layout::LayoutBox)
    layout_calls,     \* number of LayoutBox::layout invocations on the root
    bounds,           \* the Rect paint is invoked with
    display_list,     \* painting::DisplayList
    canvas            \* painting::Canvas

vars == <<pc, dom, stylesheet, styled_node, containing_block, layout_root,
          layout_calls, bounds, display_list, canvas>>

(***************************************************************************)
(* Bounds of the model.                                                    *)
(***************************************************************************)
MaxRules == 2

MaxChildren == 2

MaxItems == 2

(***************************************************************************)
(* css.rs: values                                                          *)
(***************************************************************************)
Px(n) == 2 * n

Keyword(s) == [kind |-> "Keyword", s |-> s, n |-> 0]

Length(n) == [kind |-> "Length", s |-> "px", n |-> n]

ColorValue(c) == [kind |-> "ColorValue", s |-> c, n |-> 0]

\* Value::to_px: the length of a Length, 0 for every other value
to_px(v) == IF v.kind = "Length" THEN v.n ELSE 0

auto == Keyword("auto")

zero == Length(0)

(***************************************************************************)
(* css.rs: selectors and specificity                                       *)
(***************************************************************************)
SimpleSelector(tag_name, id, class) ==
    [tag_name |-> tag_name, id |-> id, class |-> class]

\* Selector::specificity: (ids, classes, tags)
specificity(selector) ==
    <<Cardinality(selector.id), Len(selector.class), Cardinality(selector.tag_name)>>

\* Ord on (usize, usize, usize): lexicographic
SpecificityLess(a, b) ==
    \/ a[1] < b[1]
    \/ a[1] = b[1] /\ a[2] < b[2]
    \/ a[1] = b[1] /\ a[2] = b[2] /\ a[3] < b[3]

Declaration(name, v) == [name |-> name, value |-> v]

Rule(selectors, declarations) ==
    [selectors |-> selectors, declarations |-> declarations]

(***************************************************************************)
(* dom.rs: nodes                                                           *)
(***************************************************************************)
Text(children) ==
    [node_type |-> "Text", tag_name |-> "", attrs |-> <<>>, children |-> children]

Element(tag_name, attrs, children) ==
    [node_type |-> "Element", tag_name |-> tag_name, attrs |-> attrs,
     children |-> children]

(***************************************************************************)
(* style.rs: ElementData::id, ElementData::classes                         *)
(***************************************************************************)
\* attrs.get("id"): Option<&String>
id(elem) == IF "id" \in DOMAIN elem.attrs THEN {elem.attrs["id"]} ELSE {}

\* str::split(' '): the pieces between single space characters; n separators
\* give n + 1 pieces, empty ones included
RECURSIVE SplitFrom(_, _, _)
SplitFrom(s, i, cur) ==
    IF i > Len(s) THEN <<cur>>
    ELSE IF s[i] = " " THEN <<cur>> \o SplitFrom(s, i + 1, <<>>)
    ELSE SplitFrom(s, i + 1, Append(cur, s[i]))

split(s) == SplitFrom(s, 1, <<>>)

\* ElementData::classes: HashSet of the pieces of the class attribute
classes(elem) ==
    IF "class" \in DOMAIN elem.attrs
    THEN LET parts == split(elem.attrs["class"])
         IN  {parts[i] : i \in 1..Len(parts)}
    ELSE {}

(***************************************************************************)
(* style.rs: selector matching                                             *)
(***************************************************************************)
\* a matcher that does not look at the id
matches_ignoring_id(elem, selector) ==
    IF \E name \in selector.tag_name : elem.tag_name # name THEN FALSE
    ELSE IF \E k \in 1..Len(selector.class) : selector.class[k] \notin classes(elem)
    THEN FALSE
    ELSE TRUE

matches_simple_selector(elem, selector) ==
    IF \E name \in selector.tag_name : elem.tag_name # name THEN FALSE
    ELSE IF \E i \in selector.id : id(elem) # {i} THEN FALSE
    ELSE IF \E k \in 1..Len(selector.class) : selector.class[k] \notin classes(elem)
    THEN FALSE
    ELSE TRUE

matches(elem, selector) == matches_simple_selector(elem, selector)

\* a match_rule that records the last selector that matches
match_rule_last(elem, rule) ==
    LET hits == {k \in 1..Len(rule.selectors) : matches(elem, rule.selectors[k])}
    IN  IF hits = {} THEN {}
        ELSE LET last == CHOOSE k \in hits : \A j \in hits : j <= k
             IN  {[spec |-> specificity(rule.selectors[last]), rule |-> rule]}

\* match_rule: Option<(Specificity, &Rule)>, from the first selector that matches
match_rule(elem, rule) ==
    LET hits == {k \in 1..Len(rule.selectors) : matches(elem, rule.selectors[k])}
    IN  IF hits = {} THEN {}
        ELSE LET first == CHOOSE k \in hits : \A j \in hits : k <= j
             IN  {[spec |-> specificity(rule.selectors[first]), rule |-> rule]}

\* a matching_rules that keeps every rule, matched or not
matching_rules_unfiltered(elem, rules) ==
    [k \in 1..Len(rules) |->
        [spec |-> specificity(rules[k].selectors[1]), rule |-> rules[k]]]

\* matching_rules: the matched rules, in stylesheet order
RECURSIVE matching_rules(_, _)
matching_rules(elem, rules) ==
    IF rules = <<>> THEN <<>>
    ELSE LET m == match_rule(elem, Head(rules))
         IN  (IF m = {} THEN <<>> ELSE <<CHOOSE x \in m : TRUE>>)
             \o matching_rules(elem, Tail(rules))

\* slice::sort_by with the comparison a.cmp(&b): stable, ascending.  Insertion
\* of x after every element that is not greater than it keeps equal elements in
\* their original order.
RECURSIVE InsertSorted(_, _)
InsertSorted(sorted, x) ==
    IF sorted = <<>> THEN <<x>>
    ELSE IF SpecificityLess(x.spec, Head(sorted).spec)
         THEN <<x>> \o sorted
         ELSE <<Head(sorted)>> \o InsertSorted(Tail(sorted), x)

RECURSIVE SortFrom(_, _, _)
SortFrom(rules, i, acc) ==
    IF i > Len(rules) THEN acc
    ELSE SortFrom(rules, i + 1, InsertSorted(acc, rules[i]))

\* a sort that omits the sort: the rules stay in stylesheet order
sort_omitted(rules) == rules

\* an unstable sort: x goes before the elements equal to it
RECURSIVE InsertBeforeEqual(_, _)
InsertBeforeEqual(sorted, x) ==
    IF sorted = <<>> THEN <<x>>
    ELSE IF ~SpecificityLess(Head(sorted).spec, x.spec)
         THEN <<x>> \o sorted
         ELSE <<Head(sorted)>> \o InsertBeforeEqual(Tail(sorted), x)

RECURSIVE SortUnstableFrom(_, _, _)
SortUnstableFrom(rules, i, acc) ==
    IF i > Len(rules) THEN acc
    ELSE SortUnstableFrom(rules, i + 1, InsertBeforeEqual(acc, rules[i]))

sort_unstable(rules) == SortUnstableFrom(rules, 1, <<>>)

sort_by_specificity(rules) == SortFrom(rules, 1, <<>>)

\* HashMap::insert: the new value replaces the old one
insert(values, name, v) ==
    [k \in DOMAIN values \cup {name} |-> IF k = name THEN v ELSE values[k]]

RECURSIVE apply_declarations(_, _)
apply_declarations(values, declarations) ==
    IF declarations = <<>> THEN values
    ELSE apply_declarations(
             insert(values, Head(declarations).name, Head(declarations).value),
             Tail(declarations))

RECURSIVE apply_rules(_, _)
apply_rules(values, rules) ==
    IF rules = <<>> THEN values
    ELSE apply_rules(apply_declarations(values, Head(rules).rule.declarations),
                     Tail(rules))

EmptyMap == [k \in {} |-> zero]

specified_values(elem, rules) ==
    apply_rules(EmptyMap, sort_by_specificity(matching_rules(elem, rules)))

RECURSIVE style_tree(_, _)
\* a style_tree that visits the children from the last to the first
style_tree_reversed(root, rules) ==
    [node |-> root,
     specified_values |->
         IF root.node_type = "Element" THEN specified_values(root, rules)
         ELSE EmptyMap,
     children |->
         [i \in 1..Len(root.children) |->
             style_tree(root.children[Len(root.children) + 1 - i], rules)]]

style_tree(root, rules) ==
    [node |-> root,
     specified_values |->
         IF root.node_type = "Element" THEN specified_values(root, rules)
         ELSE EmptyMap,
     children |->
         [i \in 1..Len(root.children) |-> style_tree(root.children[i], rules)]]

(***************************************************************************)
(* style.rs: StyledNode accessors                                          *)
(***************************************************************************)
\* StyledNode::value: Option<Value>
value(style, name) ==
    IF name \in DOMAIN style.specified_values
    THEN {style.specified_values[name]} ELSE {}

\* a lookup that prefers the shorthand
lookup_fallback_first(style, primary, fallback, default) ==
    IF value(style, fallback) # {} THEN style.specified_values[fallback]
    ELSE IF value(style, primary) # {} THEN style.specified_values[primary]
    ELSE default

\* StyledNode::lookup
lookup(style, primary, fallback, default) ==
    IF value(style, primary) # {} THEN style.specified_values[primary]
    ELSE IF value(style, fallback) # {} THEN style.specified_values[fallback]
    ELSE default

\* StyledNode::display
display(style) ==
    LET v == value(style, "display")
    IN  IF v = {} THEN "Inline"
        ELSE LET d == CHOOSE x \in v : TRUE
             IN  IF d.kind # "Keyword" THEN "Inline"
                 ELSE IF d.s = "block" THEN "Block"
                 ELSE IF d.s = "none" THEN "None"
                 ELSE "Inline"

(***************************************************************************)
(* layout.rs: Rect, EdgeSizes, Dimensions                                  *)
(***************************************************************************)
ZeroRect == [x |-> 0, y |-> 0, width |-> 0, height |-> 0]

ZeroEdges == [left |-> 0, right |-> 0, top |-> 0, bottom |-> 0]

\* Dimensions::default
ZeroDimensions ==
    [content |-> ZeroRect, padding |-> ZeroEdges, border |-> ZeroEdges,
     margin |-> ZeroEdges]

\* an expansion that moves the origin the wrong way
expanded_inwards(rect, edge) ==
    [x |-> rect.x + edge.left,
     y |-> rect.y + edge.top,
     width |-> rect.width + edge.left + edge.right,
     height |-> rect.height + edge.top + edge.bottom]

\* Rect::expanded_by
expanded_by(rect, edge) ==
    [x |-> rect.x - edge.left,
     y |-> rect.y - edge.top,
     width |-> rect.width + edge.left + edge.right,
     height |-> rect.height + edge.top + edge.bottom]

content_box(d) == d.content

padding_box(d) == expanded_by(content_box(d), d.padding)

border_box(d) == expanded_by(padding_box(d), d.border)

margin_box(d) == expanded_by(border_box(d), d.margin)

(***************************************************************************)
(* layout.rs: LayoutBox and build_layout_tree                              *)
(***************************************************************************)
BlockNode(style) == [tag |-> "BlockNode", node |-> style]

InlineNode(style) == [tag |-> "InlineNode", node |-> style]

AnonymousBlock == [tag |-> "AnonymousBlock", node |-> <<>>]

\* LayoutBox::new
LayoutBox(box_type) ==
    [dimensions |-> ZeroDimensions, box_type |-> box_type, children |-> <<>>]

\* build_layout_tree panics on a root whose display is None
\* a construction that accepts every root
build_layout_tree_never_panics(style_node) == FALSE

build_layout_tree_panics(style_node) == display(style_node) = "None"

\* build_layout_tree, for a style_node whose display is not None; the children
\* loop never recurses into a child whose display is None
RECURSIVE build_layout_tree(_)
RECURSIVE build_children(_, _, _)
RECURSIVE build_children_unwrapped(_, _, _)
\* a children loop that attaches every child directly
build_children_unwrapped(root, style_children, i) ==
    IF i > Len(style_children) THEN root
    ELSE LET child == style_children[i]
             pushed ==
                 IF display(child) = "None" THEN root
                 ELSE [root EXCEPT !.children = Append(@, build_layout_tree(child))]
         IN  build_children_unwrapped(pushed, style_children, i + 1)

build_children(root, style_children, i) ==
    IF i > Len(style_children) THEN root
    ELSE LET child == style_children[i]
             wrapped == [LayoutBox(AnonymousBlock) EXCEPT
                            !.children = <<build_layout_tree(child)>>]
             pushed ==
                 CASE display(child) = "Block" ->
                          IF root.box_type.tag = "InlineNode"
                          THEN [root EXCEPT !.children = Append(@, wrapped)]
                          ELSE [root EXCEPT !.children = Append(@, build_layout_tree(child))]
                   [] display(child) = "Inline" ->
                          IF root.box_type.tag = "BlockNode"
                          THEN [root EXCEPT !.children = Append(@, wrapped)]
                          ELSE [root EXCEPT !.children = Append(@, build_layout_tree(child))]
                   [] OTHER -> root
         IN  build_children(pushed, style_children, i + 1)

\* a construction that makes every root an inline box
build_layout_tree_all_inline(style_node) ==
    build_children(LayoutBox(InlineNode(style_node)), style_node.children, 1)

build_layout_tree(style_node) ==
    LET root == LayoutBox(IF display(style_node) = "Block"
                          THEN BlockNode(style_node)
                          ELSE InlineNode(style_node))
    IN  build_children(root, style_node.children, 1)

(***************************************************************************)
(* layout.rs: block layout                                                 *)
(***************************************************************************)
\* LayoutBox::get_style_node panics on an AnonymousBlock
get_style_node_panics(box) == box.box_type.tag = "AnonymousBlock"

get_style_node(box) == box.box_type.node

\* underflow / 2.0 (underflow is a whole number of pixels, so an even number
\* of half pixels)
Half(underflow) == underflow \div 2

\* the arms of the match in calculate_block_width; each gives the values of
\* (width, margin_left, margin_right) after the match
\* an over-constrained arm that leaves margin-right as specified
arm_overconstrained_kept(width, margin_left, margin_right, underflow) ==
    [width |-> width, margin_left |-> margin_left, margin_right |-> margin_right]

arm_overconstrained(width, margin_left, margin_right, underflow) ==
    [width |-> width, margin_left |-> margin_left,
     margin_right |-> Length(to_px(margin_right) + underflow)]

\* a margin-right arm that gives the margin half of the underflow
arm_margin_right_auto_halved(width, margin_left, margin_right, underflow) ==
    [width |-> width, margin_left |-> margin_left,
     margin_right |-> Length(underflow \div 2)]

arm_margin_right_auto(width, margin_left, margin_right, underflow) ==
    [width |-> width, margin_left |-> margin_left, margin_right |-> Length(underflow)]

arm_margin_left_auto(width, margin_left, margin_right, underflow) ==
    [width |-> width, margin_left |-> Length(underflow), margin_right |-> margin_right]

\* a width-auto arm that lets the width go negative
arm_width_auto_unclamped(width, margin_left, margin_right, underflow) ==
    [width |-> Length(underflow),
     margin_left |-> IF margin_left = auto THEN zero ELSE margin_left,
     margin_right |-> IF margin_right = auto THEN zero ELSE margin_right]

arm_width_auto(width, margin_left, margin_right, underflow) ==
    LET ml == IF margin_left = auto THEN zero ELSE margin_left
        mr == IF margin_right = auto THEN zero ELSE margin_right
    IN  IF underflow >= 0
        THEN [width |-> Length(underflow), margin_left |-> ml, margin_right |-> mr]
        ELSE [width |-> zero, margin_left |-> ml,
              margin_right |-> Length(to_px(mr) + underflow)]

\* a centering arm that gives the whole underflow to each margin
arm_center_unhalved(width, margin_left, margin_right, underflow) ==
    [width |-> width, margin_left |-> Length(underflow),
     margin_right |-> Length(underflow)]

arm_center(width, margin_left, margin_right, underflow) ==
    [width |-> width, margin_left |-> Length(Half(underflow)),
     margin_right |-> Length(Half(underflow))]

\* the inputs calculate_block_width reads from the style
width_of(style) ==
    IF value(style, "width") = {} THEN auto ELSE style.specified_values["width"]

\* a total that leaves the padding out
total_of_without_padding(style) ==
    to_px(lookup(style, "margin-left", "margin", zero))
    + to_px(lookup(style, "margin-right", "margin", zero))
    + to_px(lookup(style, "border-left-width", "border-width", zero))
    + to_px(lookup(style, "border-right-width", "border-width", zero))
    + to_px(IF value(style, "width") = {} THEN auto ELSE style.specified_values["width"])

\* total: the sum of to_px over the seven values
total_of(style) ==
    to_px(lookup(style, "margin-left", "margin", zero))
    + to_px(lookup(style, "margin-right", "margin", zero))
    + to_px(lookup(style, "border-left-width", "border-width", zero))
    + to_px(lookup(style, "border-right-width", "border-width", zero))
    + to_px(lookup(style, "padding-left", "padding", zero))
    + to_px(lookup(style, "padding-right", "padding", zero))
    + to_px(width_of(style))

\* LayoutBox::calculate_block_width, for a box that has a style node
calculate_block_width(box, cb) ==
    LET style == get_style_node(box)
        width == width_of(style)
        margin_left == lookup(style, "margin-left", "margin", zero)
        margin_right == lookup(style, "margin-right", "margin", zero)
        border_left == lookup(style, "border-left-width", "border-width", zero)
        border_right == lookup(style, "border-right-width", "border-width", zero)
        padding_left == lookup(style, "padding-left", "padding", zero)
        padding_right == lookup(style, "padding-right", "padding", zero)
        underflow == cb.content.width - total_of(style)
        w == width = auto
        l == margin_left = auto
        r == margin_right = auto
        m == CASE ~w /\ ~l /\ ~r -> arm_overconstrained(width, margin_left, margin_right, underflow)
               [] ~w /\ ~l /\ r -> arm_margin_right_auto(width, margin_left, margin_right, underflow)
               [] ~w /\ l /\ ~r -> arm_margin_left_auto(width, margin_left, margin_right, underflow)
               [] w -> arm_width_auto(width, margin_left, margin_right, underflow)
               [] ~w /\ l /\ r -> arm_center(width, margin_left, margin_right, underflow)
    IN  [box EXCEPT
            !.dimensions.content.width = to_px(m.width),
            !.dimensions.margin.left = to_px(m.margin_left),
            !.dimensions.margin.right = to_px(m.margin_right),
            !.dimensions.border.left = to_px(border_left),
            !.dimensions.border.right = to_px(border_right),
            !.dimensions.padding.left = to_px(padding_left),
            !.dimensions.padding.right = to_px(padding_right)]

\* a position that does not go below the height the containing block has
calculate_block_position_unstacked(box, cb) ==
    LET style == get_style_node(box)
        d == [box.dimensions EXCEPT
                 !.margin.top = to_px(lookup(style, "margin-top", "margin", zero)),
                 !.margin.bottom = to_px(lookup(style, "margin-bottom", "margin", zero)),
                 !.border.top = to_px(lookup(style, "border-top-width", "border-width", zero)),
                 !.border.bottom = to_px(lookup(style, "border-bottom-width", "border-width", zero)),
                 !.padding.top = to_px(lookup(style, "padding-top", "padding", zero)),
                 !.padding.bottom = to_px(lookup(style, "padding-bottom", "padding", zero))]
    IN  [box EXCEPT
            !.dimensions =
                [d EXCEPT
                    !.content.x = cb.content.x + d.margin.left + d.border.left
                                  + d.padding.left,
                    !.content.y = cb.content.y + d.margin.top + d.border.top
                                  + d.padding.top]]

\* LayoutBox::calculate_block_position, for a box that has a style node
calculate_block_position(box, cb) ==
    LET style == get_style_node(box)
        d == [box.dimensions EXCEPT
                 !.margin.top = to_px(lookup(style, "margin-top", "margin", zero)),
                 !.margin.bottom = to_px(lookup(style, "margin-bottom", "margin", zero)),
                 !.border.top = to_px(lookup(style, "border-top-width", "border-width", zero)),
                 !.border.bottom = to_px(lookup(style, "border-bottom-width", "border-width", zero)),
                 !.padding.top = to_px(lookup(style, "padding-top", "padding", zero)),
                 !.padding.bottom = to_px(lookup(style, "padding-bottom", "padding", zero))]
    IN  [box EXCEPT
            !.dimensions =
                [d EXCEPT
                    !.content.x = cb.content.x + d.margin.left + d.border.left
                                  + d.padding.left,
                    !.content.y = cb.content.height + cb.content.y + d.margin.top
                                  + d.border.top + d.padding.top]]

\* a height resolution that keeps the accumulated height
calculate_block_height_kept(box) == box

\* LayoutBox::calculate_block_height, for a box that has a style node
calculate_block_height(box) ==
    LET h == value(get_style_node(box), "height")
    IN  IF h # {} /\ (CHOOSE v \in h : TRUE).kind = "Length"
        THEN [box EXCEPT !.dimensions.content.height = (CHOOSE v \in h : TRUE).n]
        ELSE box

\* a parent that does not grow
grown_by_nothing(box, child) == box

\* the height a parent adds for a laid-out child
grown_by(box, child) ==
    [box EXCEPT !.dimensions.content.height =
                    @ + margin_box(child.dimensions).height]

\* layout, layout_block and layout_block_children give [ok, box]: ok is FALSE
\* when the call panicked, and box is then the tree as the panic left it
RECURSIVE layout(_, _)
RECURSIVE layout_block_children(_, _)
layout_block_children(box, i) ==
    IF i > Len(box.children) THEN [ok |-> TRUE, box |-> box]
    ELSE LET r == layout(box.children[i], box.dimensions)
             placed == [box EXCEPT !.children[i] = r.box]
         IN  IF ~r.ok THEN [ok |-> FALSE, box |-> placed]
             ELSE layout_block_children(grown_by(placed, r.box), i + 1)

\* LayoutBox::layout_block
layout_block(box, cb) ==
    IF get_style_node_panics(box) THEN [ok |-> FALSE, box |-> box]
    ELSE LET positioned == calculate_block_position(calculate_block_width(box, cb), cb)
             r == layout_block_children(positioned, 1)
         IN  IF ~r.ok THEN r
             ELSE [ok |-> TRUE, box |-> calculate_block_height(r.box)]

\* a layout that lays an inline box out as a block
layout_inline_as_block(box, cb) == layout_block(box, cb)

\* LayoutBox::layout
layout(box, cb) ==
    CASE box.box_type.tag = "BlockNode" -> layout_block(box, cb)
      [] box.box_type.tag = "InlineNode" -> [ok |-> TRUE, box |-> box]
      [] box.box_type.tag = "AnonymousBlock" -> layout_block(box, cb)

(***************************************************************************)
(* painting.rs: display list                                               *)
(***************************************************************************)
Color(r, g, b, a) == [r |-> r, g |-> g, b |-> b, a |-> a]

\* Canvas::new: white
white == Color(255, 255, 255, 255)

SolidColor(color, rect) == [color |-> color, rect |-> rect]

\* a Value::ColorValue carries its Color in the model as a name
color_of(name) ==
    CASE name = "red" -> Color(255, 0, 0, 255)
      [] name = "blue" -> Color(0, 0, 255, 255)
      [] name = "green" -> Color(0, 128, 0, 255)
      [] OTHER -> Color(0, 0, 0, 255)

\* get_color: Option<Color>
get_color(layout_box, name) ==
    IF layout_box.box_type.tag = "AnonymousBlock" THEN {}
    ELSE LET v == value(layout_box.box_type.node, name)
         IN  IF v # {} /\ (CHOOSE x \in v : TRUE).kind = "ColorValue"
             THEN {color_of((CHOOSE x \in v : TRUE).s)}
             ELSE {}

\* render_background: the commands it pushes
render_background(layout_box) ==
    LET c == get_color(layout_box, "background")
    IN  IF c = {} THEN <<>>
        ELSE <<SolidColor(CHOOSE x \in c : TRUE, border_box(layout_box.dimensions))>>

\* a render_borders that pushes the top strip before the right one
render_borders_top_second(layout_box) ==
    LET c == get_color(layout_box, "border-color")
        d == layout_box.dimensions
        bb == border_box(d)
    IN  IF c = {} THEN <<>>
        ELSE LET color == CHOOSE x \in c : TRUE
             IN  << SolidColor(color, [x |-> bb.x, y |-> bb.y,
                                       width |-> d.border.left, height |-> bb.height]),
                    SolidColor(color, [x |-> bb.x, y |-> bb.y,
                                       width |-> bb.width, height |-> d.border.top]),
                    SolidColor(color, [x |-> bb.x + bb.width - d.border.right, y |-> bb.y,
                                       width |-> d.border.right, height |-> bb.height]),
                    SolidColor(color, [x |-> bb.x, y |-> bb.y + bb.height - d.border.bottom,
                                       width |-> bb.width, height |-> d.border.bottom]) >>

\* render_borders: the commands it pushes (left, right, top, bottom)
render_borders(layout_box) ==
    LET c == get_color(layout_box, "border-color")
        d == layout_box.dimensions
        bb == border_box(d)
    IN  IF c = {} THEN <<>>
        ELSE LET color == CHOOSE x \in c : TRUE
             IN  << SolidColor(color, [x |-> bb.x, y |-> bb.y,
                                       width |-> d.border.left, height |-> bb.height]),
                    SolidColor(color, [x |-> bb.x + bb.width - d.border.right, y |-> bb.y,
                                       width |-> d.border.right, height |-> bb.height]),
                    SolidColor(color, [x |-> bb.x, y |-> bb.y,
                                       width |-> bb.width, height |-> d.border.top]),
                    SolidColor(color, [x |-> bb.x, y |-> bb.y + bb.height - d.border.bottom,
                                       width |-> bb.width, height |-> d.border.bottom]) >>

\* render_layout_box: the commands it pushes, own commands first, then the
\* children's in order
RECURSIVE render_layout_box(_)
RECURSIVE render_children(_, _)
render_children(layout_box, i) ==
    IF i > Len(layout_box.children) THEN <<>>
    ELSE render_layout_box(layout_box.children[i]) \o render_children(layout_box, i + 1)

\* a render_layout_box that descends into the children before it pushes the
\* commands of the box itself
render_layout_box_children_first(layout_box) ==
    render_children(layout_box, 1)
    \o render_background(layout_box) \o render_borders(layout_box)

render_layout_box(layout_box) ==
    render_background(layout_box) \o render_borders(layout_box)
    \o render_children(layout_box, 1)

build_display_list(root) == render_layout_box(root)

(***************************************************************************)
(* painting.rs: canvas                                                     *)
(***************************************************************************)
\* f32 has a 24-bit significand: below 2^23 px every half pixel is a value of
\* f32, from there to 2^24 px only whole pixels are, then only every second
\* pixel, and so on.  The spacing of the values around v (in half pixels):
ulp(v) ==
    LET m == IF v < 0 THEN -v ELSE v
    IN  IF m < 2^24 THEN 1 ELSE IF m < 2^25 THEN 2 ELSE IF m < 2^26 THEN 4 ELSE 8

\* rounding to the nearest value of f32, ties to the even significand
f32(v) ==
    LET u == ulp(v)
        q == v \div u
        r == v % u
    IN  IF 2 * r < u THEN q * u
        ELSE IF 2 * r > u THEN (q + 1) * u
        ELSE IF q % 2 = 0 THEN q * u ELSE (q + 1) * u

\* f32 as usize: truncation toward zero, negative values saturate to 0
as_usize(v) == IF v <= 0 THEN 0 ELSE v \div 2

\* usize as f32: the nearest value of f32
as_f32(n) == f32(2 * n)

\* f32::clamp
clamp(v, lo, hi) == IF v < lo THEN lo ELSE IF v > hi THEN hi ELSE v

\* Vec<Color>: len is its length, at holds its elements by index from 0; the
\* elements that are white, as Canvas::new makes them all, are not held
Pixels(len, at) == [len |-> len, at |-> at]

\* Canvas::new
Canvas(width, height) ==
    [pixels |-> Pixels(width * height, [i \in {} |-> white]), width |-> width,
     height |-> height]

\* pixels[i], for i < pixels.len()
index(pixels, i) == IF i \in DOMAIN pixels.at THEN pixels.at[i] ELSE white

\* the clipped edges of paint_item
x0_of(cv, rect) == as_usize(clamp(rect.x, 0, as_f32(cv.width)))

y0_of(cv, rect) == as_usize(clamp(rect.y, 0, as_f32(cv.height)))

x1_of(cv, rect) == as_usize(clamp(f32(rect.x + rect.width), 0, as_f32(cv.width)))

y1_of(cv, rect) == as_usize(clamp(f32(rect.y + rect.height), 0, as_f32(cv.height)))

\* the (y, x) the two loops of paint_item visit
visited(cv, rect) ==
    (y0_of(cv, rect)..(y1_of(cv, rect) - 1)) \X (x0_of(cv, rect)..(x1_of(cv, rect) - 1))

\* the indices into pixels that the two loops of paint_item write
written(cv, rect) == { v[2] + v[1] * cv.width : v \in visited(cv, rect) }

\* indexing pixels past its end panics
paint_item_panics(cv, item) ==
    \E i \in written(cv, item.rect) : i >= cv.pixels.len

\* pixels with the indices of a set assigned a colour
assigned(pixels, indices, color) ==
    LET now(i) == IF i \in indices THEN color ELSE index(pixels, i)
    IN  Pixels(pixels.len,
               [i \in {k \in DOMAIN pixels.at \cup indices : now(k) # white} |-> now(i)])

\* Canvas::paint_item, for a call that does not panic
paint_item(cv, item) ==
    [cv EXCEPT !.pixels = assigned(@, written(cv, item.rect), item.color)]

\* Canvas::paint_item, for a call that panics: the loops run by rows, and the
\* canvas keeps what they wrote before the first index past the end
paint_item_unwound(cv, item) ==
    LET before(a, b) == a[1] < b[1] \/ (a[1] = b[1] /\ a[2] < b[2])
        past == { v \in visited(cv, item.rect) : v[2] + v[1] * cv.width >= cv.pixels.len }
        first == CHOOSE v \in past : \A u \in past : u = v \/ before(v, u)
        done == { v[2] + v[1] * cv.width :
                    v \in { u \in visited(cv, item.rect) : before(u, first) } }
    IN  [cv EXCEPT !.pixels = assigned(@, done, item.color)]

RECURSIVE paint_items(_, _, _)
paint_items(cv, list, i) ==
    IF i > Len(list) THEN cv
    ELSE paint_items(paint_item(cv, list[i]), list, i + 1)

reversed(list) == [i \in 1..Len(list) |-> list[Len(list) + 1 - i]]

\* a paint that executes the display list from its end
paint_back_to_front(root, rect) ==
    paint_items(Canvas(as_usize(rect.width), as_usize(rect.height)),
                reversed(build_display_list(root)), 1)

\* paint
paint(root, rect) ==
    paint_items(Canvas(as_usize(rect.width), as_usize(rect.height)),
                build_display_list(root), 1)

(***************************************************************************)
(* Inputs of the style stage: markup trees and stylesheets                 *)
(***************************************************************************)
ClassA == <<"a">>

ClassB == <<"b">>

NoAttrs == [k \in {} |-> ""]

LeafElements ==
    { Element("div", ("id" :> "x") @@ ("class" :> <<"a">>), <<>>),
      Element("div", ("class" :> <<"a", " ", "b">>), <<>>),
      Element("p", ("id" :> "x"), <<>>),
      Element("div", NoAttrs, <<>>) }

Doms ==
    LeafElements
    \cup { Element("div", ("class" :> <<"a">>),
                   <<Text(<<>>),
                     Element("p", ("id" :> "x") @@ ("class" :> <<"b">>),
                             <<Element("span", ("id" :> "y") @@ ("class" :> <<"a", "\t", "b">>), <<>>),
                               Text(<<>>)>>)>>) }

SelectorPool ==
    { SimpleSelector({}, {}, <<>>),
      SimpleSelector({"div"}, {}, <<>>),
      SimpleSelector({}, {}, <<ClassA>>),
      SimpleSelector({}, {}, <<ClassB>>),
      SimpleSelector({}, {"x"}, <<>>),
      SimpleSelector({"div"}, {}, <<ClassA>>),
      SimpleSelector({}, {}, <<ClassA, ClassB>>) }

\* selector lists as Parser::parse_selectors leaves them: highest specificity first
SelectorLists ==
    { <<s>> : s \in SelectorPool }
    \cup { <<SimpleSelector({}, {"x"}, <<>>), SimpleSelector({"div"}, {}, <<>>)>>,
           <<SimpleSelector({}, {}, <<ClassB>>), SimpleSelector({}, {}, <<>>)>> }

DeclarationLists ==
    { <<Declaration(name, Length(Px(n)))>> : name \in {"margin", "margin-left"}, n \in {5, 10} }
    \cup { <<Declaration("margin", Length(Px(10))), Declaration("margin-left", Length(Px(5)))>>,
           <<Declaration("margin", Length(Px(5))), Declaration("margin", auto)>> }

Rules == { Rule(sl, dl) : sl \in SelectorLists, dl \in DeclarationLists }

RECURSIVE SeqsUpTo(_, _)
SeqsUpTo(S, n) ==
    IF n = 0 THEN {<<>>}
    ELSE LET shorter == SeqsUpTo(S, n - 1)
         IN  shorter \cup { Append(q, x) : q \in {r \in shorter : Len(r) = n - 1}, x \in S }

Stylesheets == SeqsUpTo(Rules, MaxRules)

(***************************************************************************)
(* Placeholders for the parts of the state a stage has not produced        *)
(***************************************************************************)
NoTree == <<>>

NoCanvas == Canvas(0, 0)

(***************************************************************************)
(* The style stage as a state machine                                      *)
(***************************************************************************)
InitStyle ==
    /\ pc = "style"
    /\ dom \in Doms
    /\ stylesheet \in Stylesheets
    /\ styled_node = NoTree
    /\ containing_block = ZeroDimensions
    /\ layout_root = NoTree
    /\ layout_calls = 0
    /\ bounds = ZeroRect
    /\ display_list = <<>>
    /\ canvas = NoCanvas

\* style::style_tree(&dom, &stylesheet)
StyleTree ==
    /\ pc = "style"
    /\ styled_node' = style_tree(dom, stylesheet)
    /\ pc' = "styled"
    /\ UNCHANGED <<dom, stylesheet, containing_block, layout_root, layout_calls,
                   bounds, display_list, canvas>>

NextStyle == StyleTree

SpecStyle == InitStyle /\ [][NextStyle]_vars

(***************************************************************************)
(* Vocabulary of the cascade properties                                    *)
(***************************************************************************)
RECURSIVE StyledNodes(_)
StyledNodes(sn) ==
    {sn} \cup UNION { StyledNodes(sn.children[i]) : i \in 1..Len(sn.children) }

StyledElements == { sn \in StyledNodes(styled_node) : sn.node.node_type = "Element" }

Declares(rule, p) == \E d \in 1..Len(rule.declarations) : rule.declarations[d].name = p

\* the value a rule gives p: that of its last declaration of p
DeclaredValue(rule, p) ==
    LET ds == {d \in 1..Len(rule.declarations) : rule.declarations[d].name = p}
        last == CHOOSE d \in ds : \A e \in ds : e <= d
    IN  rule.declarations[last].value

Matched(elem, k) == match_rule(elem, stylesheet[k]) # {}

MatchedSpec(elem, k) == (CHOOSE m \in match_rule(elem, stylesheet[k]) : TRUE).spec

\* no matching rule other than j that declares p is applied after rule j
Decides(elem, j, p) ==
    \A k \in 1..Len(stylesheet) :
        (k # j /\ Matched(elem, k) /\ Declares(stylesheet[k], p)) =>
            \/ SpecificityLess(MatchedSpec(elem, k), MatchedSpec(elem, j))
            \/ MatchedSpec(elem, k) = MatchedSpec(elem, j) /\ k < j

PropertyNames == {"margin", "margin-left"}

Conflict(elem, i, j, p) ==
    /\ i # j
    /\ Matched(elem, i) /\ Matched(elem, j)
    /\ Declares(stylesheet[i], p) /\ Declares(stylesheet[j], p)
    /\ DeclaredValue(stylesheet[i], p) # DeclaredValue(stylesheet[j], p)

\* C1: Cascade determinism.  For every element matched by a rule R1 of
\* specificity (0,1,0) and a rule R2 of specificity (1,0,0) that declare the
\* same property with different values (R2 being the rule no other matching
\* declaration of the property outranks), the resolved value of the property
\* is R2's, whether R1 or R2 comes first in the stylesheet.
C1_CascadeDeterminism ==
    pc = "styled" =>
        \A sn \in StyledElements :
            \A i, j \in 1..Len(stylesheet), p \in PropertyNames :
                ( /\ Conflict(sn.node, i, j, p)
                  /\ MatchedSpec(sn.node, i) = <<0, 1, 0>>
                  /\ MatchedSpec(sn.node, j) = <<1, 0, 0>>
                  /\ Decides(sn.node, j, p) )
                => /\ p \in DOMAIN sn.specified_values
                   /\ sn.specified_values[p] = DeclaredValue(stylesheet[j], p)

\* C1 witness: the (1,0,0) rule comes FIRST, the (0,1,0) rule second, and the
\* element resolved the property to the first rule's value
C1_Witness ==
    /\ pc = "styled"
    /\ \E sn \in StyledElements :
           \E i, j \in 1..Len(stylesheet), p \in PropertyNames :
               /\ j < i
               /\ Conflict(sn.node, i, j, p)
               /\ MatchedSpec(sn.node, i) = <<0, 1, 0>>
               /\ MatchedSpec(sn.node, j) = <<1, 0, 0>>
               /\ sn.specified_values[p] = DeclaredValue(stylesheet[j], p)

\* C2: Cascade tie-break.  When two rules matching an element have equal
\* specificity and declare the same property, the later one in the stylesheet
\* gives the resolved value (no other matching declaration of the property
\* being applied after it).
C2_CascadeTieBreak ==
    pc = "styled" =>
        \A sn \in StyledElements :
            \A i, j \in 1..Len(stylesheet), p \in PropertyNames :
                ( /\ i < j
                  /\ Matched(sn.node, i) /\ Matched(sn.node, j)
                  /\ Declares(stylesheet[i], p) /\ Declares(stylesheet[j], p)
                  /\ MatchedSpec(sn.node, i) = MatchedSpec(sn.node, j)
                  /\ Decides(sn.node, j, p) )
                => /\ p \in DOMAIN sn.specified_values
                   /\ sn.specified_values[p] = DeclaredValue(stylesheet[j], p)

\* C2 witness: two matching rules of equal specificity give the property
\* different values and the element has the later rule's value
C2_Witness ==
    /\ pc = "styled"
    /\ \E sn \in StyledElements :
           \E i, j \in 1..Len(stylesheet), p \in PropertyNames :
               /\ i < j
               /\ Conflict(sn.node, i, j, p)
               /\ MatchedSpec(sn.node, i) = MatchedSpec(sn.node, j)
               /\ sn.specified_values[p] = DeclaredValue(stylesheet[j], p)

\* C3: Shorthand fallback.  lookup(primary, fallback, default) is the node's
\* value for primary when present, otherwise its value for fallback when
\* present, otherwise default; with only margin: 10px the margin-left lookup
\* is 10px, with margin-left: 5px also set it is 5px.
C3_ShorthandFallback ==
    pc = "styled" =>
        \A sn \in StyledNodes(styled_node) :
            LET sv == sn.specified_values
            IN  /\ \A primary, fallback \in PropertyNames \cup {"padding"},
                      default \in {zero, auto} :
                       lookup(sn, primary, fallback, default) =
                           CASE primary \in DOMAIN sv -> sv[primary]
                             [] primary \notin DOMAIN sv /\ fallback \in DOMAIN sv -> sv[fallback]
                             [] OTHER -> default
                /\ (DOMAIN sv = {"margin"} /\ sv["margin"] = Length(Px(10)))
                       => lookup(sn, "margin-left", "margin", zero) = Length(Px(10))
                /\ ( /\ DOMAIN sv = {"margin", "margin-left"}
                     /\ sv["margin"] = Length(Px(10))
                     /\ sv["margin-left"] = Length(Px(5)) )
                       => lookup(sn, "margin-left", "margin", zero) = Length(Px(5))

\* C3 witness: a node resolved with margin: 10px alone, whose margin-left
\* lookup falls back to the shorthand
C3_Witness ==
    /\ pc = "styled"
    /\ \E sn \in StyledElements :
           /\ DOMAIN sn.specified_values = {"margin"}
           /\ sn.specified_values["margin"] = Length(Px(10))
           /\ lookup(sn, "margin-left", "margin", zero) = Length(Px(10))

\* the condition under which a simple selector applies to an element
SelectorHolds(elem, selector) ==
    /\ selector.tag_name = {} \/ selector.tag_name = {elem.tag_name}
    /\ selector.id = {}
       \/ ("id" \in DOMAIN elem.attrs /\ selector.id = {elem.attrs["id"]})
    /\ \A k \in 1..Len(selector.class) : selector.class[k] \in classes(elem)

RuleHolds(elem, rule) ==
    \E k \in 1..Len(rule.selectors) : SelectorHolds(elem, rule.selectors[k])

\* C11: Selector matching.  A simple selector matches an element iff its tag
\* name is absent or equals the element's, its id is absent or equals the
\* element's id attribute, and every class of the selector is among the
\* classes of the element's class attribute; a selector with no tag, no id and
\* no classes matches every element.  The resolved properties of an element
\* are those declared by the rules that have such a selector.
C11_SelectorMatching ==
    pc = "styled" =>
        \A sn \in StyledElements :
            /\ \A selector \in SelectorPool :
                   /\ matches(sn.node, selector) <=> SelectorHolds(sn.node, selector)
                   /\ ( /\ selector.tag_name = {} /\ selector.id = {}
                        /\ selector.class = <<>> ) => matches(sn.node, selector)
            /\ DOMAIN sn.specified_values =
                   { p \in PropertyNames :
                       \E k \in 1..Len(stylesheet) :
                           RuleHolds(sn.node, stylesheet[k]) /\ Declares(stylesheet[k], p) }

\* C11 witness: the element with class attribute "a b" and no id took margin
\* from a rule whose selector names both classes, and nothing from a rule
\* whose selector names an id
C11_Witness ==
    /\ pc = "styled"
    /\ Len(stylesheet) = 2
    /\ stylesheet[1].selectors = <<SimpleSelector({}, {}, <<ClassA, ClassB>>)>>
    /\ stylesheet[2].selectors = <<SimpleSelector({}, {"x"}, <<>>)>>
    /\ Declares(stylesheet[1], "margin") /\ ~Declares(stylesheet[1], "margin-left")
    /\ Declares(stylesheet[2], "margin-left")
    /\ classes(styled_node.node) = {ClassA, ClassB}
    /\ "id" \notin DOMAIN styled_node.node.attrs
    /\ DOMAIN styled_node.specified_values = {"margin"}

\* the selectors of a rule are in descending order of specificity
SortedDescending(selectors) ==
    \A i, j \in 1..Len(selectors) :
        i < j => ~SpecificityLess(specificity(selectors[i]), specificity(selectors[j]))

\* C25: Rule specificity.  A rule matches an element iff at least one of its
\* selectors matches, and for a rule whose selectors are sorted descending by
\* specificity the specificity recorded for the match is the greatest
\* specificity among the rule's selectors that match the element.
C25_RuleSpecificity ==
    pc = "styled" =>
        \A sn \in StyledElements, k \in 1..Len(stylesheet) :
            LET selectors == stylesheet[k].selectors
                holds == { j \in 1..Len(selectors) : SelectorHolds(sn.node, selectors[j]) }
            IN  /\ Matched(sn.node, k) <=> holds # {}
                /\ (holds # {} /\ SortedDescending(selectors)) =>
                       /\ \E j \in holds :
                              MatchedSpec(sn.node, k) = specificity(selectors[j])
                       /\ \A j \in holds :
                              ~SpecificityLess(MatchedSpec(sn.node, k),
                                               specificity(selectors[j]))

\* C25 witness: a rule with the selectors #x, div matched an element that
\* both selectors match, with the specificity (1,0,0) of the id selector
C25_Witness ==
    /\ pc = "styled"
    /\ \E sn \in StyledElements, k \in 1..Len(stylesheet) :
           /\ stylesheet[k].selectors =
                  <<SimpleSelector({}, {"x"}, <<>>), SimpleSelector({"div"}, {}, <<>>)>>
           /\ \A j \in 1..2 : SelectorHolds(sn.node, stylesheet[k].selectors[j])
           /\ MatchedSpec(sn.node, k) = <<1, 0, 0>>

\* the tokens of a string between whitespace characters; a run of
\* whitespace separates two tokens and gives no empty one
Whitespace == {" ", "\t", "\n", "\r", "\f"}

RECURSIVE TokensFrom(_, _, _)
TokensFrom(s, i, cur) ==
    IF i > Len(s) THEN (IF cur = <<>> THEN {} ELSE {cur})
    ELSE IF s[i] \in Whitespace
         THEN (IF cur = <<>> THEN {} ELSE {cur}) \cup TokensFrom(s, i + 1, <<>>)
         ELSE TokensFrom(s, i + 1, Append(cur, s[i]))

WhitespaceTokens(elem) ==
    IF "class" \in DOMAIN elem.attrs THEN TokensFrom(elem.attrs["class"], 1, <<>>)
    ELSE {}

\* C26 as stated: the class attribute of an element is parsed as
\* whitespace-separated tokens, so a selector class matches iff it equals one
\* of the tokens obtained by splitting the attribute on any whitespace
\* character, runs of whitespace producing no empty token.
C26_ClassTokenization ==
    pc = "styled" =>
        \A sn \in StyledElements, class \in {ClassA, ClassB} :
            matches(sn.node, SimpleSelector({}, {}, <<class>>))
                <=> class \in WhitespaceTokens(sn.node)

\* where the class attribute has single spaces only, the selector classes
\* match as stated
C26_SingleSpaces ==
    pc = "styled" =>
        \A sn \in StyledElements, class \in {ClassA, ClassB} :
            ( /\ "class" \in DOMAIN sn.node.attrs
              /\ \A i \in 1..Len(sn.node.attrs["class"]) :
                     sn.node.attrs["class"][i] \notin Whitespace \ {" "} )
            => ( matches(sn.node, SimpleSelector({}, {}, <<class>>))
                     <=> class \in WhitespaceTokens(sn.node) )

\* the property names declared by the rules that match elem
DeclaredNames(elem) ==
    UNION { { stylesheet[k].declarations[d].name :
                  d \in 1..Len(stylesheet[k].declarations) } :
            k \in { j \in 1..Len(stylesheet) : Matched(elem, j) } }

\* C27: A styled node's property map holds a property name only if some
\* stylesheet rule matching that node's element declares it, and holds every
\* name so declared; consequently every text node and every element matching
\* no rule has an empty property map.
C27_PropertyMapContents ==
    pc = "styled" =>
        \A sn \in StyledNodes(styled_node) :
            /\ sn.node.node_type = "Element" =>
                   DOMAIN sn.specified_values = DeclaredNames(sn.node)
            /\ sn.node.node_type = "Text" => sn.specified_values = EmptyMap
            /\ ( /\ sn.node.node_type = "Element"
                 /\ \A k \in 1..Len(stylesheet) : ~Matched(sn.node, k) )
               => sn.specified_values = EmptyMap

\* a styled tree with a text node, an element that a declaring rule matches
\* and an element that no rule matches although the stylesheet declares
C27_Witness ==
    /\ pc = "styled"
    /\ \E sn \in StyledNodes(styled_node) : sn.node.node_type = "Text"
    /\ \E sn \in StyledElements :
           /\ DeclaredNames(sn.node) # {}
           /\ DOMAIN sn.specified_values = DeclaredNames(sn.node)
    /\ \E sn \in StyledElements :
           /\ \A k \in 1..Len(stylesheet) : ~Matched(sn.node, k)
           /\ \E k \in 1..Len(stylesheet) : stylesheet[k].declarations # <<>>
           /\ sn.specified_values = EmptyMap

\* C15: The styled tree mirrors the markup tree.  The root styled node
\* references the markup root, and every styled node, at every depth, has as
\* many children as the markup node it references, the i-th styled child
\* referencing the i-th markup child.
C15_StyledTreeMirrorsMarkup ==
    pc = "styled" =>
        /\ styled_node.node = dom
        /\ \A sn \in StyledNodes(styled_node) :
               /\ Len(sn.children) = Len(sn.node.children)
               /\ \A i \in 1..Len(sn.children) :
                      sn.children[i].node = sn.node.children[i]

\* C15 witness: a styled tree of depth two whose nodes have two different
\* children each, in markup order
C15_Witness ==
    /\ pc = "styled"
    /\ Len(styled_node.children) = 2
    /\ styled_node.children[1].node.node_type = "Text"
    /\ styled_node.children[2].node.tag_name = "p"
    /\ Len(styled_node.children[2].children) = 2
    /\ styled_node.children[2].children[1].node.tag_name = "span"
    /\ styled_node.children[2].children[2].node.node_type = "Text"

(***************************************************************************)
(* Inputs of the layout stage: styled trees built directly, as the tests   *)
(* of layout.rs build them, and the containing block                       *)
(***************************************************************************)
\* a property map from optional values: a name is present iff its option is
Props(opts) ==
    [name \in {k \in DOMAIN opts : opts[k] # {}} |-> CHOOSE v \in opts[name] : TRUE]

Styled(props, children) ==
    [node |-> Element("div", NoAttrs, <<>>), specified_values |-> props,
     children |-> children]

Block == {Keyword("block")}

\* leaf blocks over the inputs of width resolution
WidthStyles ==
    { Styled(Props([display |-> Block, width |-> w, margin |-> m, padding |-> pd]
                   @@ ("margin-left" :> ml) @@ ("margin-right" :> mr)
                   @@ ("border-width" :> bw) @@ ("padding-left" :> pl)), <<>>) :
        w \in {{}, {auto}, {Length(Px(200))}, {Length(Px(400))}, {Keyword("inherit")}},
        m \in {{}, {Length(Px(10))}, {auto}},
        ml \in {{}, {auto}, {Length(Px(20))}},
        mr \in {{}, {auto}, {Length(Px(20))}},
        pd \in {{}, {Length(Px(5))}},
        bw \in {{}, {Length(Px(3))}},
        pl \in {{}, {Length(Px(7))}} }

\* children of the trees: blocks of heights 40 and 60, with and without
\* vertical edges, a block of auto height with a child, inline and hidden nodes
BlockOfHeight(h) == Styled(Props([display |-> Block, height |-> {Length(Px(h))}]), <<>>)

ChildStyles ==
    { BlockOfHeight(40),
      BlockOfHeight(60),
      Styled(Props([display |-> Block, height |-> {Length(Px(40))},
                    margin |-> {Length(Px(10))}, width |-> {Length(Px(400))}]
                   @@ ("padding-top" :> {Length(Px(5))})
                   @@ ("border-width" :> {Length(Px(3))})), <<>>),
      Styled(Props([display |-> Block, padding |-> {Length(Px(5))}]),
             <<BlockOfHeight(60), BlockOfHeight(40)>>),
      Styled(Props([display |-> {Keyword("inline")}]), <<>>),
      Styled(Props([display |-> {Keyword("none")}]), <<BlockOfHeight(40)>>),
      Styled(EmptyMap, <<BlockOfHeight(40)>>) }

TreeStyles ==
    { Styled(Props([display |-> d, height |-> h, padding |-> pd]), ch) :
        d \in {Block, {Keyword("inline")}, {Keyword("none")}, {}, {Keyword("flex")},
               {Length(Px(1))}},
        h \in {{}, {Length(Px(50))}},
        pd \in {{}, {Length(Px(5))}},
        ch \in SeqsUpTo(ChildStyles, MaxChildren) }

StyledTrees == WidthStyles \cup TreeStyles

\* create_test_dimensions(width, height), at the positions the pass may give it
ContainingBlocks ==
    { [ZeroDimensions EXCEPT !.content = [x |-> x, y |-> y, width |-> w, height |-> h]] :
        x \in {0, Px(10)}, y \in {0, Px(10)}, w \in {Px(300), Px(30)},
        h \in {0, Px(100)} }

(***************************************************************************)
(* The layout stage as a state machine                                     *)
(***************************************************************************)
InitLayout ==
    /\ pc = "styled"
    /\ dom = NoTree
    /\ stylesheet = <<>>
    /\ styled_node \in StyledTrees
    /\ containing_block \in ContainingBlocks
    /\ layout_root = NoTree
    /\ layout_calls = 0
    /\ bounds = ZeroRect
    /\ display_list = <<>>
    /\ canvas = NoCanvas

\* layout::build_layout_tree(&styled_node); a panic aborts the pass
BuildLayoutTree ==
    /\ pc = "styled"
    /\ IF build_layout_tree_panics(styled_node)
       THEN pc' = "aborted" /\ UNCHANGED layout_root
       ELSE pc' = "built" /\ layout_root' = build_layout_tree(styled_node)
    /\ UNCHANGED <<dom, stylesheet, styled_node, containing_block, layout_calls,
                   bounds, display_list, canvas>>

\* layout_root.layout(&containing_block); a panic aborts the pass
Layout ==
    /\ pc = "built"
    /\ LET r == layout(layout_root, containing_block)
       IN  /\ layout_root' = r.box
           /\ pc' = IF r.ok THEN "laidout" ELSE "aborted"
    /\ layout_calls' = layout_calls + 1
    /\ UNCHANGED <<dom, stylesheet, styled_node, containing_block, bounds,
                   display_list, canvas>>

NextLayout == BuildLayoutTree \/ Layout

SpecLayout == InitLayout /\ [][NextLayout]_vars

(***************************************************************************)
(* Vocabulary of the layout properties                                     *)
(***************************************************************************)
\* the boxes block layout was performed on, each with the content width of
\* the containing block it was laid out in
RECURSIVE LaidOut(_, _)
LaidOut(box, cbw) ==
    IF box.box_type.tag # "BlockNode" THEN {}
    ELSE {[box |-> box, cbw |-> cbw]}
         \cup UNION { LaidOut(box.children[i], box.dimensions.content.width) :
                        i \in 1..Len(box.children) }

LaidOutBlocks == LaidOut(layout_root, containing_block.content.width)

RECURSIVE AllBoxes(_)
AllBoxes(box) ==
    {box} \cup UNION { AllBoxes(box.children[i]) : i \in 1..Len(box.children) }

\* the used value of a margin in the width-auto case: auto counts as 0
AutoAsZero(v) == IF v = auto THEN 0 ELSE to_px(v)

NoHorizontalEdges(style) ==
    \A name \in {"margin", "margin-left", "margin-right", "padding", "padding-left",
                 "padding-right", "border-width", "border-left-width",
                 "border-right-width"} : value(style, name) = {}

\* C4: Width auto.  When width is auto or unset, auto margins count as 0; if
\* underflow = containing width - total is >= 0 the content width is underflow
\* (containing width 300 with no margins, border or padding gives exactly
\* 300), otherwise the content width is 0 and margin-right is its value plus
\* the negative underflow.
C4_WidthAuto ==
    pc = "laidout" =>
        \A e \in LaidOutBlocks :
            LET style == get_style_node(e.box)
                d == e.box.dimensions
                ml == AutoAsZero(lookup(style, "margin-left", "margin", zero))
                mr == AutoAsZero(lookup(style, "margin-right", "margin", zero))
                underflow == e.cbw - total_of(style)
            IN  (value(style, "width") \subseteq {auto}) =>
                    /\ d.margin.left = ml
                    /\ underflow >= 0 =>
                           d.content.width = underflow /\ d.margin.right = mr
                    /\ underflow < 0 =>
                           d.content.width = 0 /\ d.margin.right = mr + underflow
                    /\ (e.cbw = Px(300) /\ NoHorizontalEdges(style)) =>
                           d.content.width = Px(300)

\* C4 witness: width unset, no horizontal edges, containing width 300, and the
\* content width came out as 300
C4_Witness ==
    /\ pc = "laidout"
    /\ \E e \in LaidOutBlocks :
           /\ value(get_style_node(e.box), "width") = {}
           /\ NoHorizontalEdges(get_style_node(e.box))
           /\ e.cbw = Px(300)
           /\ e.box.dimensions.content.width = Px(300)

\* the overflowing case of C4 is reached as well: width auto, the edges wider
\* than the containing block, a negative margin-right
C4_WitnessOverflow ==
    /\ pc = "laidout"
    /\ \E e \in LaidOutBlocks :
           /\ value(get_style_node(e.box), "width") \subseteq {auto}
           /\ e.cbw - total_of(get_style_node(e.box)) < 0
           /\ e.box.dimensions.content.width = 0
           /\ e.box.dimensions.margin.right < 0

\* C5: Auto-margin centering.  When width is an explicit length and both
\* margin-left and margin-right are auto, both margins are underflow / 2
\* (containing width 300, width 200: both margins 50).
C5_AutoMarginCentering ==
    pc = "laidout" =>
        \A e \in LaidOutBlocks :
            LET style == get_style_node(e.box)
                d == e.box.dimensions
                underflow == e.cbw - total_of(style)
            IN  ( /\ width_of(style).kind = "Length"
                  /\ lookup(style, "margin-left", "margin", zero) = auto
                  /\ lookup(style, "margin-right", "margin", zero) = auto )
                => /\ d.margin.left = d.margin.right
                   /\ d.margin.left + d.margin.right = underflow
                   /\ d.content.width = to_px(width_of(style))
                   /\ ( /\ e.cbw = Px(300)
                        /\ width_of(style) = Length(Px(200))
                        /\ total_of(style) = Px(200) )
                      => d.margin.left = Px(50) /\ d.margin.right = Px(50)

\* C5 witness: containing width 300, width 200, both margins auto, and both
\* margins came out as 50
C5_Witness ==
    /\ pc = "laidout"
    /\ \E e \in LaidOutBlocks :
           LET style == get_style_node(e.box)
           IN  /\ width_of(style) = Length(Px(200))
               /\ lookup(style, "margin-left", "margin", zero) = auto
               /\ lookup(style, "margin-right", "margin", zero) = auto
               /\ e.cbw = Px(300)
               /\ e.box.dimensions.margin.left = Px(50)
               /\ e.box.dimensions.margin.right = Px(50)

\* the sum of the margin-box heights of the first n children
RECURSIVE HeightsUpTo(_, _)
HeightsUpTo(box, n) ==
    IF n = 0 THEN 0
    ELSE HeightsUpTo(box, n - 1) + margin_box(box.children[n].dimensions).height

HeightIsAuto(style) ==
    \A v \in value(style, "height") : v.kind # "Length"

AllChildrenBlocks(box) ==
    \A i \in 1..Len(box.children) : box.children[i].box_type.tag = "BlockNode"

PlainBlockOfHeight(box, h) ==
    /\ box.box_type.tag = "BlockNode"
    /\ DOMAIN get_style_node(box).specified_values = {"display", "height"}
    /\ get_style_node(box).specified_values["height"] = Length(Px(h))

\* C6: Vertical stacking.  When a block box lays out its block children in
\* order, each child's margin box top is the parent's content.y plus the sum
\* of the margin-box heights of the earlier siblings, and the parent's auto
\* content.height is the sum of its children's margin-box heights (siblings of
\* heights 40 and 60 with zero spacing: the second's content.y is 40 more
\* than the first's and the parent's height is 100).
C6_VerticalStacking ==
    pc = "laidout" =>
        \A e \in LaidOutBlocks :
            LET box == e.box
                d == box.dimensions
            IN  AllChildrenBlocks(box) =>
                    /\ \A i \in 1..Len(box.children) :
                           margin_box(box.children[i].dimensions).y =
                               d.content.y + HeightsUpTo(box, i - 1)
                    /\ HeightIsAuto(get_style_node(box)) =>
                           d.content.height = HeightsUpTo(box, Len(box.children))
                    /\ ( /\ Len(box.children) = 2
                         /\ PlainBlockOfHeight(box.children[1], 40)
                         /\ PlainBlockOfHeight(box.children[2], 60) )
                       => /\ box.children[2].dimensions.content.y =
                                 box.children[1].dimensions.content.y + Px(40)
                          /\ HeightIsAuto(get_style_node(box)) =>
                                 d.content.height = Px(100)

\* C6 witness: a laid-out block of auto height with the two siblings of
\* heights 40 and 60, the second 40 below the first, the parent 100 high
C6_Witness ==
    /\ pc = "laidout"
    /\ \E e \in LaidOutBlocks :
           /\ Len(e.box.children) = 2
           /\ PlainBlockOfHeight(e.box.children[1], 40)
           /\ PlainBlockOfHeight(e.box.children[2], 60)
           /\ HeightIsAuto(get_style_node(e.box))
           /\ e.box.children[2].dimensions.content.y =
                  e.box.children[1].dimensions.content.y + Px(40)
           /\ e.box.dimensions.content.height = Px(100)

\* rectangle containment, by edges
Contains(outer, inner) ==
    /\ outer.x <= inner.x
    /\ outer.y <= inner.y
    /\ outer.x + outer.width >= inner.x + inner.width
    /\ outer.y + outer.height >= inner.y + inner.height

AllZero(edge) == edge = ZeroEdges

NonNegative(edge) ==
    edge.left >= 0 /\ edge.right >= 0 /\ edge.top >= 0 /\ edge.bottom >= 0

\* C8 as stated: for any Dimensions, margin_box contains border_box, which
\* contains padding_box, which contains content_box, and two consecutive
\* boxes are equal iff the EdgeSizes between them are all zero.
C8_NestedBoxes_AsStated ==
    pc = "laidout" =>
        \A box \in AllBoxes(layout_root) :
            LET d == box.dimensions
            IN  /\ Contains(margin_box(d), border_box(d))
                /\ Contains(border_box(d), padding_box(d))
                /\ Contains(padding_box(d), content_box(d))
                /\ (margin_box(d) = border_box(d)) <=> AllZero(d.margin)
                /\ (border_box(d) = padding_box(d)) <=> AllZero(d.border)
                /\ (padding_box(d) = content_box(d)) <=> AllZero(d.padding)

\* C8, amended: for any Dimensions, each box contains the next one whenever
\* the EdgeSizes between the two are non-negative (layout can make margin.left
\* and margin.right negative), and two consecutive boxes are equal iff the
\* EdgeSizes between them are all zero.
C8_NestedBoxes ==
    pc = "laidout" =>
        \A box \in AllBoxes(layout_root) :
            LET d == box.dimensions
            IN  /\ NonNegative(d.margin) => Contains(margin_box(d), border_box(d))
                /\ NonNegative(d.border) => Contains(border_box(d), padding_box(d))
                /\ NonNegative(d.padding) => Contains(padding_box(d), content_box(d))
                /\ (margin_box(d) = border_box(d)) <=> AllZero(d.margin)
                /\ (border_box(d) = padding_box(d)) <=> AllZero(d.border)
                /\ (padding_box(d) = content_box(d)) <=> AllZero(d.padding)

\* C8 witness: a laid-out box with positive padding, border and margin whose
\* four boxes are strictly nested
C8_Witness ==
    /\ pc = "laidout"
    /\ \E box \in AllBoxes(layout_root) :
           LET d == box.dimensions
           IN  /\ NonNegative(d.margin) /\ ~AllZero(d.margin)
               /\ ~AllZero(d.border) /\ ~AllZero(d.padding)
               /\ Contains(margin_box(d), border_box(d))
               /\ margin_box(d) # border_box(d)
               /\ border_box(d) # padding_box(d)
               /\ padding_box(d) # content_box(d)

\* C9 as stated: for every styled tree whose root's display is not None,
\* build_layout_tree followed by layout on the root runs to completion: the
\* pass aborts only for a root whose display is None.
C9_LayoutNeverAborts ==
    pc = "aborted" => display(styled_node) = "None"

(***************************************************************************)
(* Vocabulary of the layout tree construction properties                   *)
(***************************************************************************)
\* the display property of a styled node is the keyword k
DisplayIs(sn, k) ==
    /\ "display" \in DOMAIN sn.specified_values
    /\ sn.specified_values["display"] = Keyword(k)

NotHidden(sn) == ~DisplayIs(sn, "none")

\* the children of a styled node that get a box
Survivors(sn) == SelectSeq(sn.children, NotHidden)

\* the variant the box of a styled node has
VariantOf(sn) == IF DisplayIs(sn, "block") THEN "BlockNode" ELSE "InlineNode"

\* the children of a box, with every AnonymousBlock replaced by its children
RECURSIVE UnwrappedFrom(_, _)
UnwrappedFrom(children, i) ==
    IF i > Len(children) THEN <<>>
    ELSE (IF children[i].box_type.tag = "AnonymousBlock" THEN children[i].children
          ELSE <<children[i]>>) \o UnwrappedFrom(children, i + 1)

Unwrapped(box) == UnwrappedFrom(box.children, 1)

RECURSIVE BoxesFollow(_, _)
BoxesFollow(box, sn) ==
    /\ box.box_type.tag = VariantOf(sn)
    /\ box.box_type.node = sn
    /\ Len(Unwrapped(box)) = Len(Survivors(sn))
    /\ \A i \in 1..Len(Survivors(sn)) : BoxesFollow(Unwrapped(box)[i], Survivors(sn)[i])

\* C12: build_layout_tree gives each styled node a box whose variant follows
\* its display: BlockNode iff display is the keyword block, InlineNode for any
\* other value or when display is unset, no box for the keyword none (the node
\* and its descendants are absent from the tree); the boxes of the surviving
\* children appear under the parent in the order of the styled tree.
C12_BoxVariants ==
    pc = "built" => BoxesFollow(layout_root, styled_node)

\* C12 witness: a root whose display is another keyword became an InlineNode,
\* its first child (display none, with a child of its own) has no box, and its
\* second child is the only box under the root
C12_Witness ==
    /\ pc = "built"
    /\ DisplayIs(styled_node, "flex")
    /\ layout_root.box_type.tag = "InlineNode"
    /\ Len(styled_node.children) = 2
    /\ DisplayIs(styled_node.children[1], "none")
    /\ styled_node.children[1].children # <<>>
    /\ Len(layout_root.children) = 1
    /\ Unwrapped(layout_root)[1].box_type.node = styled_node.children[2]

\* the boxes of the styled nodes, each with its styled node: the tree without
\* the anonymous boxes
RECURSIVE StyledBoxes(_)
StyledBoxes(box) ==
    (IF box.box_type.tag = "AnonymousBlock" THEN {} ELSE {box})
    \cup UNION { StyledBoxes(box.children[i]) : i \in 1..Len(box.children) }

\* C13: Anonymous wrapping.  In every tree built by build_layout_tree each
\* block child of an inline parent and each inline child of a block parent is
\* inside its own AnonymousBlock holding exactly that child, a child of the
\* parent's type is attached directly; no AnonymousBlock is the root or has
\* zero or several children, and a BlockNode has no InlineNode as a direct
\* child.
C13_AnonymousWrapping ==
    pc = "built" =>
        /\ layout_root.box_type.tag # "AnonymousBlock"
        /\ \A box \in AllBoxes(layout_root) :
               /\ box.box_type.tag = "AnonymousBlock" => Len(box.children) = 1
               /\ box.box_type.tag = "BlockNode" =>
                      \A i \in 1..Len(box.children) :
                          box.children[i].box_type.tag # "InlineNode"
        /\ \A box \in StyledBoxes(layout_root) :
               LET vis == Survivors(box.box_type.node)
               IN  /\ Len(box.children) = Len(vis)
                   /\ \A i \in 1..Len(vis) :
                          LET child == box.children[i]
                          IN  IF VariantOf(vis[i]) = box.box_type.tag
                              THEN /\ child.box_type.tag = VariantOf(vis[i])
                                   /\ child.box_type.node = vis[i]
                              ELSE /\ child.box_type.tag = "AnonymousBlock"
                                   /\ child.dimensions = ZeroDimensions
                                   /\ Len(child.children) = 1
                                   /\ child.children[1].box_type.tag = VariantOf(vis[i])
                                   /\ child.children[1].box_type.node = vis[i]

\* C13 witness: a block root with an inline child, wrapped, and a block child,
\* attached directly
C13_Witness ==
    /\ pc = "built"
    /\ layout_root.box_type.tag = "BlockNode"
    /\ Len(layout_root.children) = 2
    /\ layout_root.children[1].box_type.tag = "AnonymousBlock"
    /\ layout_root.children[1].children[1].box_type.tag = "InlineNode"
    /\ layout_root.children[2].box_type.tag = "BlockNode"

\* a block child under an inline parent is wrapped as well
C13_WitnessInlineParent ==
    /\ pc = "built"
    /\ \E box \in AllBoxes(layout_root) :
           /\ box.box_type.tag = "InlineNode"
           /\ \E i \in 1..Len(box.children) :
                  /\ box.children[i].box_type.tag = "AnonymousBlock"
                  /\ box.children[i].children[1].box_type.tag = "BlockNode"

RECURSIVE HasHidden(_)
HasHidden(sn) ==
    \E i \in 1..Len(sn.children) :
        DisplayIs(sn.children[i], "none") \/ HasHidden(sn.children[i])

\* C14: A styled root whose display is none makes build_layout_tree fail
\* fatally: the pass aborts and no layout tree is produced.  A root of any
\* other display gets its tree, whatever nodes below it have display none.
C14_RootDisplayNone ==
    /\ (pc = "aborted" /\ layout_calls = 0) =>
           DisplayIs(styled_node, "none") /\ layout_root = NoTree
    /\ (pc # "styled" /\ DisplayIs(styled_node, "none")) =>
           pc = "aborted" /\ layout_calls = 0
    /\ pc = "built" => layout_root # NoTree

\* C14 witness: construction aborted on a root with display none
C14_Witness ==
    /\ pc = "aborted"
    /\ layout_calls = 0
    /\ DisplayIs(styled_node, "none")
    /\ layout_root = NoTree

\* a tree with a hidden node below the root was built
C14_WitnessSkipped ==
    /\ pc = "built"
    /\ HasHidden(styled_node)
    /\ \A box \in StyledBoxes(layout_root) : NotHidden(box.box_type.node)

(***************************************************************************)
(* The arms of width resolution                                            *)
(***************************************************************************)
\* the horizontal extent of a box: its content width and its six edges
Extent(d) ==
    d.margin.left + d.border.left + d.padding.left + d.content.width
    + d.padding.right + d.border.right + d.margin.right

SpecifiedLeft(style) == lookup(style, "margin-left", "margin", zero)

SpecifiedRight(style) == lookup(style, "margin-right", "margin", zero)

\* C21: Block-width equation.  After width resolution of a block box, for
\* every combination of auto and non-auto width and margins, margin.left +
\* border.left + padding.left + content.width + padding.right + border.right
\* + margin.right equals the content width of the containing block.
C21_BlockWidthEquation ==
    pc = "laidout" =>
        \A e \in LaidOutBlocks : Extent(e.box.dimensions) = e.cbw

\* C21 witness: a box with margins, border, padding and width all non-zero,
\* its margin-right computed, that fills its containing block exactly
C21_Witness ==
    /\ pc = "laidout"
    /\ \E e \in LaidOutBlocks :
           LET d == e.box.dimensions
           IN  /\ d.margin.left > 0 /\ d.border.left > 0 /\ d.padding.left > 0
               /\ d.content.width > 0 /\ d.padding.right > 0 /\ d.border.right > 0
               /\ d.margin.right > 0
               /\ d.padding.left # d.padding.right
               /\ SpecifiedRight(get_style_node(e.box)) = auto
               /\ Extent(d) = e.cbw

\* the equation is reached through each arm of the match
C21_WitnessArms ==
    /\ pc = "laidout"
    /\ \E e \in LaidOutBlocks :
           /\ width_of(get_style_node(e.box)).kind = "Length"
           /\ SpecifiedLeft(get_style_node(e.box)) = auto
           /\ SpecifiedRight(get_style_node(e.box)) = auto
           /\ e.cbw - total_of(get_style_node(e.box)) < 0
           /\ Extent(e.box.dimensions) = e.cbw

\* C22: Over-constrained width.  When none of width, margin-left and
\* margin-right is auto, width resolution keeps width and margin-left as
\* specified and sets margin-right to its specified value plus underflow,
\* which may make it negative.
C22_OverConstrained ==
    pc = "laidout" =>
        \A e \in LaidOutBlocks :
            LET style == get_style_node(e.box)
                d == e.box.dimensions
                underflow == e.cbw - total_of(style)
            IN  ( /\ width_of(style) # auto
                  /\ SpecifiedLeft(style) # auto
                  /\ SpecifiedRight(style) # auto )
                => /\ d.content.width = to_px(width_of(style))
                   /\ d.margin.left = to_px(SpecifiedLeft(style))
                   /\ d.margin.right = to_px(SpecifiedRight(style)) + underflow

\* C22 witness: width 400px, margin-left and margin-right 20px in a
\* containing block too narrow for them: margin-right came out negative
C22_Witness ==
    /\ pc = "laidout"
    /\ \E e \in LaidOutBlocks :
           LET style == get_style_node(e.box)
           IN  /\ width_of(style) = Length(Px(400))
               /\ SpecifiedLeft(style) = Length(Px(20))
               /\ SpecifiedRight(style) = Length(Px(20))
               /\ e.box.dimensions.content.width = Px(400)
               /\ e.box.dimensions.margin.left = Px(20)
               /\ e.box.dimensions.margin.right < 0

\* C23: Single auto margin.  When width is an explicit length and exactly
\* one of margin-left and margin-right is auto, that margin becomes underflow
\* and the other margin and the width stay as specified (containing width 300,
\* width 200, margin-left 20, margin-right auto: margin-right 80).
C23_SingleAutoMargin ==
    pc = "laidout" =>
        \A e \in LaidOutBlocks :
            LET style == get_style_node(e.box)
                d == e.box.dimensions
                underflow == e.cbw - total_of(style)
            IN  width_of(style).kind = "Length" =>
                    /\ (SpecifiedLeft(style) # auto /\ SpecifiedRight(style) = auto) =>
                           /\ d.margin.right = underflow
                           /\ d.margin.left = to_px(SpecifiedLeft(style))
                           /\ d.content.width = to_px(width_of(style))
                    /\ (SpecifiedLeft(style) = auto /\ SpecifiedRight(style) # auto) =>
                           /\ d.margin.left = underflow
                           /\ d.margin.right = to_px(SpecifiedRight(style))
                           /\ d.content.width = to_px(width_of(style))
                    /\ ( /\ e.cbw = Px(300)
                         /\ width_of(style) = Length(Px(200))
                         /\ SpecifiedLeft(style) = Length(Px(20))
                         /\ SpecifiedRight(style) = auto
                         /\ total_of(style) = Px(220) )
                       => d.margin.right = Px(80)

\* C23 witness: containing width 300, width 200, margin-left 20, margin-right
\* auto, nothing else: margin-right came out as 80
C23_Witness ==
    /\ pc = "laidout"
    /\ \E e \in LaidOutBlocks :
           LET style == get_style_node(e.box)
           IN  /\ e.cbw = Px(300)
               /\ width_of(style) = Length(Px(200))
               /\ SpecifiedLeft(style) = Length(Px(20))
               /\ SpecifiedRight(style) = auto
               /\ total_of(style) = Px(220)
               /\ e.box.dimensions.margin.left = Px(20)
               /\ e.box.dimensions.margin.right = Px(80)

\* the other single margin: margin-left auto took the underflow
C23_WitnessLeft ==
    /\ pc = "laidout"
    /\ \E e \in LaidOutBlocks :
           LET style == get_style_node(e.box)
           IN  /\ width_of(style) = Length(Px(200))
               /\ SpecifiedLeft(style) = auto
               /\ SpecifiedRight(style) = Length(Px(20))
               /\ e.box.dimensions.margin.left = e.cbw - total_of(style)
               /\ e.box.dimensions.margin.left # 0

(***************************************************************************)
(* LayoutBox::layout on trees put together box by box, as the tests of     *)
(* layout.rs do with LayoutBox::new and children.push                      *)
(***************************************************************************)
\* LayoutBox::new(box_type) followed by children.push of each child
Pushed(box_type, children) == [LayoutBox(box_type) EXCEPT !.children = children]

BlockBox(h, children) ==
    Pushed(BlockNode(Styled(Props([display |-> Block, height |-> h]), <<>>)), children)

InlineBox(children) ==
    Pushed(InlineNode(Styled(Props([display |-> {Keyword("inline")},
                                    height |-> {Length(Px(30))},
                                    margin |-> {Length(Px(5))}]), <<>>)), children)

ChildBoxes ==
    { BlockBox({Length(Px(40))}, <<>>),
      Pushed(BlockNode(Styled(Props([display |-> Block, height |-> {Length(Px(60))},
                                     margin |-> {Length(Px(10))}]), <<>>)), <<>>),
      InlineBox(<<>>),
      InlineBox(<<BlockBox({Length(Px(40))}, <<>>)>>),
      Pushed(AnonymousBlock, <<BlockBox({Length(Px(40))}, <<>>)>>),
      BlockBox({}, <<InlineBox(<<>>), BlockBox({Length(Px(40))}, <<>>)>>) }

\* leaf blocks over the inputs of position resolution
EdgeBoxes ==
    { Pushed(BlockNode(Styled(Props([display |-> Block, margin |-> m, padding |-> pd]
                                    @@ ("margin-top" :> mt) @@ ("padding-top" :> pt)
                                    @@ ("border-width" :> bw)
                                    @@ ("border-bottom-width" :> bb)
                                    @@ ("margin-left" :> ml)), <<>>)), <<>>) :
        m \in {{}, {Length(Px(10))}}, mt \in {{}, {Length(Px(4))}, {auto}},
        pd \in {{}, {Length(Px(5))}}, pt \in {{}, {Length(Px(7))}},
        bw \in {{}, {Length(Px(3))}}, bb \in {{}, {Length(Px(2))}},
        ml \in {{}, {Length(Px(20))}} }

BoxTrees ==
    LET kids == SeqsUpTo(ChildBoxes, MaxChildren)
    IN  { BlockBox(h, ch) : h \in {{}, {Length(Px(50))}, {auto}}, ch \in kids }
        \cup EdgeBoxes
        \cup { InlineBox(ch) : ch \in kids }
        \cup { Pushed(AnonymousBlock, ch) : ch \in kids }

InitLayoutBox ==
    /\ pc = "built"
    /\ dom = NoTree
    /\ stylesheet = <<>>
    /\ styled_node = NoTree
    /\ containing_block \in ContainingBlocks
    /\ layout_root \in BoxTrees
    /\ layout_calls = 0
    /\ bounds = ZeroRect
    /\ display_list = <<>>
    /\ canvas = NoCanvas

NextLayoutBox == Layout

SpecLayoutBox == InitLayoutBox /\ [][NextLayoutBox]_vars

\* C18: Height resolution.  After layout of a block box its content.height
\* is the length of its height property when that is a Length, whatever its
\* children are, and otherwise the sum of its children's margin-box heights.
C18_HeightResolution ==
    pc = "laidout" =>
        \A e \in LaidOutBlocks :
            LET h == value(get_style_node(e.box), "height")
                explicit == { v \in h : v.kind = "Length" }
            IN  /\ \A v \in explicit : e.box.dimensions.content.height = v.n
                /\ explicit = {} =>
                       e.box.dimensions.content.height =
                           HeightsUpTo(e.box, Len(e.box.children))

\* C18 witness: a block of height 50px whose children are 40px and 80px tall
\* came out 50px tall
C18_Witness ==
    /\ pc = "laidout"
    /\ value(get_style_node(layout_root), "height") = {Length(Px(50))}
    /\ Len(layout_root.children) = 2
    /\ HeightsUpTo(layout_root, 2) = Px(120)
    /\ layout_root.dimensions.content.height = Px(50)

\* a block of height auto came out as tall as its children together
C18_WitnessAuto ==
    /\ pc = "laidout"
    /\ value(get_style_node(layout_root), "height") = {auto}
    /\ HeightsUpTo(layout_root, Len(layout_root.children)) = Px(120)
    /\ layout_root.dimensions.content.height = Px(120)

\* every box of a tree has the Dimensions LayoutBox::new gave it
Untouched(box) == \A b \in AllBoxes(box) : b.dimensions = ZeroDimensions

\* the boxes layout was invoked on: the root, and the children of every block
\* box among them
RECURSIVE Invoked(_)
Invoked(box) ==
    {box} \cup (IF box.box_type.tag # "BlockNode" THEN {}
                ELSE UNION { Invoked(box.children[i]) : i \in 1..Len(box.children) })

\* the sum of the margin-box heights of the children that are not inline
RECURSIVE BlockHeights(_, _)
BlockHeights(box, n) ==
    IF n = 0 THEN 0
    ELSE BlockHeights(box, n - 1)
         + (IF box.children[n].box_type.tag = "InlineNode" THEN 0
            ELSE margin_box(box.children[n].dimensions).height)

\* C19: Inline boxes occupy zero layout space.  layout on an InlineNode box
\* leaves its Dimensions and those of its whole subtree as they were (all
\* zero, the tree being freshly put together), so an inline child adds 0 to
\* its parent's content.height.
C19_InlineNoOp ==
    pc = "laidout" =>
        /\ \A box \in Invoked(layout_root) :
               box.box_type.tag = "InlineNode" => Untouched(box)
        /\ \A e \in LaidOutBlocks :
               HeightIsAuto(get_style_node(e.box)) =>
                   e.box.dimensions.content.height =
                       BlockHeights(e.box, Len(e.box.children))

\* C19 witness: a block of auto height laid out with an inline child, which
\* has a block child of its own, and a 40px block child: the inline subtree is
\* untouched and the parent is 40px tall
C19_Witness ==
    /\ pc = "laidout"
    /\ layout_calls = 1
    /\ layout_root.box_type.tag = "BlockNode"
    /\ HeightIsAuto(get_style_node(layout_root))
    /\ Len(layout_root.children) = 2
    /\ layout_root.children[1].box_type.tag = "InlineNode"
    /\ layout_root.children[1].children # <<>>
    /\ Untouched(layout_root.children[1])
    /\ layout_root.children[2].dimensions.content.height = Px(40)
    /\ layout_root.dimensions.content.height = Px(40)

\* the block boxes layout was performed on, each with the position and the
\* height its containing block had when the box was laid out
RECURSIVE Placed(_, _, _, _)
Placed(box, x, y, height) ==
    IF box.box_type.tag # "BlockNode" THEN {}
    ELSE {[box |-> box, x |-> x, y |-> y, height |-> height]}
         \cup UNION { Placed(box.children[i], box.dimensions.content.x,
                             box.dimensions.content.y, HeightsUpTo(box, i - 1)) :
                        i \in 1..Len(box.children) }

PlacedBlocks ==
    Placed(layout_root, containing_block.content.x, containing_block.content.y,
           containing_block.content.height)

\* an edge read from its longhand property, else its shorthand, else 0
EdgeFrom(style, longhand, shorthand) ==
    LET sv == style.specified_values
    IN  IF longhand \in DOMAIN sv THEN to_px(sv[longhand])
        ELSE IF shorthand \in DOMAIN sv THEN to_px(sv[shorthand])
        ELSE 0

\* C24: Position resolution.  After position resolution content.x is the
\* containing block's content.x plus the box's margin.left, border.left and
\* padding.left, and content.y is the containing block's content.y plus its
\* current content.height plus the box's margin.top, border.top and
\* padding.top, each vertical edge read from its longhand property, else its
\* shorthand, else 0.
C24_PositionResolution ==
    pc = "laidout" =>
        \A e \in PlacedBlocks :
            LET style == get_style_node(e.box)
                d == e.box.dimensions
            IN  /\ d.margin.top = EdgeFrom(style, "margin-top", "margin")
                /\ d.margin.bottom = EdgeFrom(style, "margin-bottom", "margin")
                /\ d.border.top = EdgeFrom(style, "border-top-width", "border-width")
                /\ d.border.bottom = EdgeFrom(style, "border-bottom-width", "border-width")
                /\ d.padding.top = EdgeFrom(style, "padding-top", "padding")
                /\ d.padding.bottom = EdgeFrom(style, "padding-bottom", "padding")
                /\ d.content.x = e.x + d.margin.left + d.border.left + d.padding.left
                /\ d.content.y = e.y + e.height + d.margin.top + d.border.top
                                 + d.padding.top

\* C24 witness: a box with margin 10px, margin-top 4px, padding 5px,
\* padding-top 7px and border-width 3px in a containing block at (10, 10)
\* that is 100px tall: content.x is 10 + 10 + 3 + 5, content.y is
\* 10 + 100 + 4 + 3 + 7
C24_Witness ==
    /\ pc = "laidout"
    /\ containing_block.content.x = Px(10)
    /\ containing_block.content.y = Px(10)
    /\ containing_block.content.height = Px(100)
    /\ layout_root.dimensions.margin.top = Px(4)
    /\ layout_root.dimensions.margin.bottom = Px(10)
    /\ layout_root.dimensions.padding.top = Px(7)
    /\ layout_root.dimensions.padding.bottom = Px(5)
    /\ layout_root.dimensions.border.top = Px(3)
    /\ layout_root.dimensions.content.x = Px(28)
    /\ layout_root.dimensions.content.y = Px(124)

(***************************************************************************)
(* LayoutBox::layout invoked a second time on the tree it has laid out,    *)
(* with the same containing block                                          *)
(***************************************************************************)
\* layout_root.layout(&containing_block), on the tree as the first call left it
LayoutAgain ==
    /\ pc = "laidout"
    /\ layout_calls = 1
    /\ LET r == layout(layout_root, containing_block)
       IN  /\ layout_root' = r.box
           /\ pc' = IF r.ok THEN "relaidout" ELSE "aborted"
    /\ layout_calls' = layout_calls + 1
    /\ UNCHANGED <<dom, stylesheet, styled_node, containing_block, bounds,
                   display_list, canvas>>

NextRelayout == Layout \/ LayoutAgain

SpecRelayout == InitLayoutBox /\ [][NextRelayout]_vars

\* the dimensions of a box and of every descendant, by the path to the box
RECURSIVE DimensionsOf(_, _)
DimensionsOf(box, path) ==
    {[path |-> path, dimensions |-> box.dimensions]}
    \cup UNION { DimensionsOf(box.children[i], Append(path, i)) :
                 i \in 1..Len(box.children) }

\* C30 as stated: layout is idempotent: invoking layout a second time on an
\* already laid-out box with the same containing block leaves the Dimensions
\* of that box and of every descendant equal to what they were after the
\* first invocation.
C30_LayoutIdempotent ==
    [][(pc = "laidout" /\ pc' = "relaidout") =>
           DimensionsOf(layout_root', <<>>) = DimensionsOf(layout_root, <<>>)]_vars

\* the second invocation does leave the dimensions as they were when no
\* block of the tree has a child with a margin box of a height
C30_IdempotentWithoutGrowth ==
    [][( /\ pc = "laidout" /\ pc' = "relaidout"
         /\ \A e \in LaidOutBlocks :
                \A i \in 1..Len(e.box.children) :
                    margin_box(e.box.children[i].dimensions).height = 0 ) =>
           DimensionsOf(layout_root', <<>>) = DimensionsOf(layout_root, <<>>)]_vars

\* the second invocation of layout on a block of automatic height with a
\* block child of a height: the child has moved down by the height the
\* parent had, and the parent has grown by the child once more
C30_WitnessGrown ==
    /\ pc = "relaidout"
    /\ layout_calls = 2
    /\ layout_root.box_type.tag = "BlockNode"
    /\ HeightIsAuto(get_style_node(layout_root))
    /\ Len(layout_root.children) = 1
    /\ layout_root.children[1].box_type.tag = "BlockNode"
    /\ margin_box(layout_root.children[1].dimensions).height > 0
    /\ layout_root.dimensions.content.height =
           2 * margin_box(layout_root.children[1].dimensions).height
    /\ layout_root.children[1].dimensions.content.y >=
           layout_root.dimensions.content.y
           + margin_box(layout_root.children[1].dimensions).height

\* C20 as stated: invoking layout on an AnonymousBlock box performs block
\* layout on it, lays out its child, and completes without aborting.
C20_AnonymousBlockLayout ==
    (layout_calls = 1 /\ layout_root.box_type.tag = "AnonymousBlock") =>
        /\ pc = "laidout"
        /\ \A i \in 1..Len(layout_root.children) :
               layout_root.children[i].box_type.tag = "BlockNode" =>
                   layout_root.children[i].dimensions # ZeroDimensions

(***************************************************************************)
(* Inputs of the paint stage: layout trees whose dimensions are set        *)
(* directly, as the tests of painting.rs set them, and the bounds          *)
(***************************************************************************)
PaintRects ==
    { [x |-> x, y |-> y, width |-> w, height |-> h] :
        x \in {Px(-1), 0, 1}, y \in {0, Px(1)},
        w \in {Px(-1), 3, Px(4)}, h \in {Px(1), Px(3)} }

Uniform(n) == [left |-> n, right |-> n, top |-> n, bottom |-> n]

\* a box of the given type and dimensions
BoxWith(box_type, content, padding, border, children) ==
    [dimensions |-> [content |-> content, padding |-> Uniform(padding),
                     border |-> Uniform(border), margin |-> ZeroEdges],
     box_type |-> box_type, children |-> children]

Painted(bg, bc) ==
    Styled(Props([display |-> Block, background |-> bg] @@ ("border-color" :> bc)), <<>>)

PaintChildren ==
    { BoxWith(BlockNode(Painted({ColorValue("blue")}, {})),
              [x |-> x, y |-> 0, width |-> w, height |-> Px(1)], 0, 0, <<>>) :
        x \in {0, Px(1)}, w \in {Px(2)} }
    \cup { BoxWith(BlockNode(Painted({}, {ColorValue("green")})),
                   [x |-> Px(1), y |-> Px(1), width |-> Px(1), height |-> 0], 0, Px(1), <<>>),
           [LayoutBox(AnonymousBlock) EXCEPT !.children =
               << BoxWith(InlineNode(Painted({ColorValue("green")}, {})),
                          [x |-> 0, y |-> 0, width |-> Px(2), height |-> Px(2)], 0, 0, <<>>) >>] }

PaintTrees ==
    { BoxWith(BlockNode(Painted(bg, bc)), rect, edges[1], edges[2], ch) :
        bg \in {{}, {ColorValue("red")}, {Keyword("red")}},
        bc \in {{}, {ColorValue("green")}},
        rect \in PaintRects,
        edges \in {<<0, 0>>, <<Px(1), 1>>},
        ch \in SeqsUpTo(PaintChildren, MaxChildren) }

PaintBounds ==
    { [x |-> 0, y |-> 0, width |-> Px(3), height |-> Px(2)],
      [x |-> Px(1), y |-> 0, width |-> Px(2) + 1, height |-> Px(3)] }

(***************************************************************************)
(* The paint stage as a state machine                                      *)
(***************************************************************************)
InitPaint ==
    /\ pc = "laidout"
    /\ dom = NoTree
    /\ stylesheet = <<>>
    /\ styled_node = NoTree
    /\ containing_block = ZeroDimensions
    /\ layout_root \in PaintTrees
    /\ layout_calls = 0
    /\ bounds \in PaintBounds
    /\ display_list = <<>>
    /\ canvas = NoCanvas

\* painting::paint(&layout_root, bounds)
Paint ==
    /\ pc = "laidout"
    /\ display_list' = build_display_list(layout_root)
    /\ canvas' = paint(layout_root, bounds)
    /\ pc' = "painted"
    /\ UNCHANGED <<dom, stylesheet, styled_node, containing_block, layout_root,
                   layout_calls, bounds>>

NextPaint == Paint

SpecPaint == InitPaint /\ [][NextPaint]_vars

(***************************************************************************)
(* Vocabulary of the paint properties                                      *)
(***************************************************************************)
\* the pixel (x, y) lies in the clipped rectangle of a command
Covers(cv, item, x, y) ==
    /\ x0_of(cv, item.rect) <= x /\ x < x1_of(cv, item.rect)
    /\ y0_of(cv, item.rect) <= y /\ y < y1_of(cv, item.rect)

PixelAt(cv, x, y) == index(cv.pixels, x + y * cv.width)

HasColor(box, name) == get_color(box, name) # {}

\* C7: Paint overwrite order.  After paint every pixel has the colour of the
\* last command of the display list whose clipped rectangle covers it, or
\* opaque white when no command covers it; a pixel covered by both a parent's
\* background and its child's background ends with the child's colour.
C7_PaintOverwriteOrder ==
    pc = "painted" =>
        /\ canvas.width = as_usize(bounds.width)
        /\ canvas.height = as_usize(bounds.height)
        /\ canvas.pixels.len = canvas.width * canvas.height
        /\ \A x \in 0..(canvas.width - 1), y \in 0..(canvas.height - 1) :
               LET over == {k \in 1..Len(display_list) :
                               Covers(canvas, display_list[k], x, y)}
               IN  /\ over = {} => PixelAt(canvas, x, y) = white
                   /\ over # {} =>
                          PixelAt(canvas, x, y) =
                              display_list[CHOOSE k \in over : \A j \in over : j <= k].color
        /\ ( /\ Len(layout_root.children) = 1
             /\ HasColor(layout_root, "background")
             /\ ~HasColor(layout_root, "border-color")
             /\ HasColor(layout_root.children[1], "background")
             /\ ~HasColor(layout_root.children[1], "border-color")
             /\ layout_root.children[1].children = <<>> )
           => LET parent == SolidColor(CHOOSE c \in get_color(layout_root, "background") : TRUE,
                                       border_box(layout_root.dimensions))
                  child == SolidColor(
                               CHOOSE c \in get_color(layout_root.children[1], "background") : TRUE,
                               border_box(layout_root.children[1].dimensions))
              IN  \A x \in 0..(canvas.width - 1), y \in 0..(canvas.height - 1) :
                      (Covers(canvas, parent, x, y) /\ Covers(canvas, child, x, y))
                          => PixelAt(canvas, x, y) = child.color

\* C7 witness: a parent with a red background and a child with a blue one
\* that cover a common pixel, which came out blue, while another pixel that
\* only the parent covers came out red
C7_Witness ==
    /\ pc = "painted"
    /\ Len(layout_root.children) = 1
    /\ get_color(layout_root, "background") = {color_of("red")}
    /\ get_color(layout_root.children[1], "background") = {color_of("blue")}
    /\ \E x \in 0..(canvas.width - 1), y \in 0..(canvas.height - 1) :
           /\ Covers(canvas, SolidColor(color_of("red"), border_box(layout_root.dimensions)), x, y)
           /\ Covers(canvas, SolidColor(color_of("blue"),
                                        border_box(layout_root.children[1].dimensions)), x, y)
           /\ PixelAt(canvas, x, y) = color_of("blue")
    /\ \E x \in 0..(canvas.width - 1), y \in 0..(canvas.height - 1) :
           PixelAt(canvas, x, y) = color_of("red")

\* the colour a box has for a property: that of its style node when the
\* property is given as a colour
ColourOf(box, name) ==
    IF box.box_type.tag = "AnonymousBlock" THEN {}
    ELSE IF name \notin DOMAIN box.box_type.node.specified_values THEN {}
    ELSE IF box.box_type.node.specified_values[name].kind # "ColorValue" THEN {}
    ELSE {color_of(box.box_type.node.specified_values[name].s)}

\* the background command of a box: one SolidColor over its border box
BackgroundOf(box) ==
    IF ColourOf(box, "background") = {} THEN <<>>
    ELSE <<SolidColor(CHOOSE c \in ColourOf(box, "background") : TRUE,
                      border_box(box.dimensions))>>

\* the commands of a box itself: its background first, then its borders
OwnCommands(box) == BackgroundOf(box) \o render_borders(box)

\* the number of commands of a box and its descendants
RECURSIVE Emitted(_)
RECURSIVE EmittedBefore(_, _)
EmittedBefore(box, i) ==
    IF i <= 1 THEN 0
    ELSE EmittedBefore(box, i - 1) + Emitted(box.children[i - 1])

Emitted(box) == Len(OwnCommands(box)) + EmittedBefore(box, Len(box.children) + 1)

\* the commands of box and its descendants stand in list from position
\* from + 1 on: those of the box itself, then the subtree of each child, the
\* children in their order
RECURSIVE InPreOrder(_, _, _)
InPreOrder(box, list, from) ==
    /\ from + Emitted(box) <= Len(list)
    /\ SubSeq(list, from + 1, from + Len(OwnCommands(box))) = OwnCommands(box)
    /\ \A i \in 1..Len(box.children) :
           InPreOrder(box.children[i], list,
                      from + Len(OwnCommands(box)) + EmittedBefore(box, i))

\* C28: Display list order.  build_display_list emits commands in
\* depth-first pre-order: all of a box's own commands (its background first,
\* then its borders) precede every command of its descendants, and the
\* subtrees of siblings appear in child order; a box with a background
\* colour contributes exactly one SolidColor whose rectangle is its border
\* box, and an AnonymousBlock or a box with no colour property contributes no
\* command.
C28_DisplayListOrder ==
    pc = "painted" =>
        /\ Len(display_list) = Emitted(layout_root)
        /\ InPreOrder(layout_root, display_list, 0)
        /\ \A box \in AllBoxes(layout_root) :
               /\ ColourOf(box, "background") # {} =>
                      /\ Len(render_background(box)) = 1
                      /\ render_background(box)[1].rect = border_box(box.dimensions)
                      /\ render_background(box)[1].color \in ColourOf(box, "background")
               /\ ( \/ box.box_type.tag = "AnonymousBlock"
                    \/ /\ ColourOf(box, "background") = {}
                       /\ ColourOf(box, "border-color") = {} )
                  => /\ render_background(box) = <<>>
                     /\ render_borders(box) = <<>>
                     /\ Emitted(box) = EmittedBefore(box, Len(box.children) + 1)

\* a painted tree whose root has a background and borders, with two
\* children, one of them an anonymous block over a coloured inline box and
\* the other a coloured block; and one whose root gives its background as a
\* keyword
C28_Witness ==
    /\ pc = "painted"
    /\ ColourOf(layout_root, "background") # {}
    /\ ColourOf(layout_root, "border-color") # {}
    /\ Len(layout_root.children) = 2
    /\ layout_root.children[1].box_type.tag = "AnonymousBlock"
    /\ Emitted(layout_root.children[1]) = 1
    /\ layout_root.children[2].box_type.tag = "BlockNode"
    /\ Emitted(layout_root.children[2]) = 4
    /\ Len(display_list) = 10

C28_WitnessKeyword ==
    /\ pc = "painted"
    /\ "background" \in DOMAIN layout_root.box_type.node.specified_values
    /\ ColourOf(layout_root, "background") = {}
    /\ ColourOf(layout_root, "border-color") = {}
    /\ Len(layout_root.children) = 2
    /\ Len(display_list) = Emitted(layout_root.children[1]) + Emitted(layout_root.children[2])
    /\ Len(display_list) > 0

\* the position in the display list before the commands of each box of the
\* tree: the boxes with the position their commands start from
RECURSIVE Positions(_, _)
Positions(box, from) ==
    {[box |-> box, from |-> from]}
    \cup UNION { Positions(box.children[i],
                           from + Len(OwnCommands(box)) + EmittedBefore(box, i)) :
                 i \in 1..Len(box.children) }

\* the four commands after those of the background of e.box are its border
\* strips: left, right, top, bottom, along the edges of its border box
StripsOf(e) ==
    LET d == e.box.dimensions
        bb == border_box(d)
        at == e.from + Len(BackgroundOf(e.box))
        left == display_list[at + 1]
        right == display_list[at + 2]
        top == display_list[at + 3]
        bottom == display_list[at + 4]
    IN  /\ Len(OwnCommands(e.box)) = Len(BackgroundOf(e.box)) + 4
        /\ \A k \in 1..4 : display_list[at + k].color \in ColourOf(e.box, "border-color")
        /\ left.rect.x = bb.x /\ left.rect.y = bb.y
        /\ left.rect.width = d.border.left /\ left.rect.height = bb.height
        /\ right.rect.x + right.rect.width = bb.x + bb.width /\ right.rect.y = bb.y
        /\ right.rect.width = d.border.right /\ right.rect.height = bb.height
        /\ top.rect.x = bb.x /\ top.rect.y = bb.y
        /\ top.rect.width = bb.width /\ top.rect.height = d.border.top
        /\ bottom.rect.x = bb.x /\ bottom.rect.y + bottom.rect.height = bb.y + bb.height
        /\ bottom.rect.width = bb.width /\ bottom.rect.height = d.border.bottom
        /\ (d.border.left = 0 => left.rect.width * left.rect.height = 0)
        /\ (d.border.right = 0 => right.rect.width * right.rect.height = 0)
        /\ (d.border.top = 0 => top.rect.width * top.rect.height = 0)
        /\ (d.border.bottom = 0 => bottom.rect.width * bottom.rect.height = 0)

\* each of the four strips lies inside the border box
StripsInside(e) ==
    LET at == e.from + Len(BackgroundOf(e.box))
    IN  \A k \in 1..4 :
            Contains(border_box(e.box.dimensions), display_list[at + k].rect)

Bordered == { e \in Positions(layout_root, 0) : ColourOf(e.box, "border-color") # {} }

\* the content size, the padding and the border of the box are not negative
SizesNonNegative(d) ==
    /\ d.content.width >= 0 /\ d.content.height >= 0
    /\ NonNegative(d.padding) /\ NonNegative(d.border)

\* C29 as stated: a box with a border-color contributes exactly four
\* SolidColor commands, in the order left, right, top, bottom, each lying
\* inside the border box: left and right strips span the border box's full
\* height with widths border.left and border.right at its left and right
\* edges, top and bottom strips span its full width with heights border.top
\* and border.bottom at its top and bottom edges; a border width of 0 gives a
\* zero-area rectangle.
C29_BorderStrips ==
    pc = "painted" => \A e \in Bordered : StripsOf(e) /\ StripsInside(e)

\* C29: a box with a border-color contributes exactly four SolidColor
\* commands, in the order left, right, top, bottom, with the geometry above;
\* each lies inside the border box when the content size, the padding and
\* the border of the box are not negative.
C29_BorderStripsOfNonNegativeSizes ==
    pc = "painted" =>
        \A e \in Bordered :
            /\ StripsOf(e)
            /\ SizesNonNegative(e.box.dimensions) => StripsInside(e)

\* a painted root with borders of a width and a child with a border colour
\* and no width of border, all strips inside their border boxes; and a root
\* of negative content width whose border box its strips leave
C29_Witness ==
    /\ pc = "painted"
    /\ \E e \in Bordered :
           /\ e.box = layout_root
           /\ e.box.dimensions.border.left > 0
           /\ ColourOf(e.box, "background") # {}
           /\ SizesNonNegative(e.box.dimensions)
           /\ StripsOf(e) /\ StripsInside(e)
    /\ \E e \in Bordered :
           /\ e.from > 0
           /\ SizesNonNegative(e.box.dimensions)
           /\ StripsOf(e) /\ StripsInside(e)

C29_WitnessNegative ==
    /\ pc = "painted"
    /\ \E e \in Bordered :
           /\ e.box.dimensions.content.width < 0
           /\ e.box.dimensions.border = ZeroEdges
           /\ StripsOf(e) /\ ~StripsInside(e)

(***************************************************************************)
(* Canvas::paint_item as a state machine: a caller paints commands of its  *)
(* own, one call after the other, on a canvas made by Canvas::new          *)
(***************************************************************************)
\* canvases of a few pixels, and canvases wider than the 2^24 px up to which
\* every whole number is a value of f32
ItemCanvases ==
    { Canvas(3, 2), Canvas(2, 3), Canvas(2^24 + 3, 1), Canvas(2^24 + 3, 2),
      Canvas(2^24 + 1, 2) }

\* rectangles around the origin (negative origin, negative width, fractional
\* edges, partly outside) and rectangles at the far end of a wide canvas
ItemRects ==
    { [x |-> x, y |-> y, width |-> w, height |-> h] :
        x \in {Px(-1), 1}, y \in {0, Px(1)}, w \in {Px(-1), Px(2)},
        h \in {Px(1) + 1, Px(3)} }
    \cup { [x |-> Px(2^24 - 2), y |-> 0, width |-> Px(10), height |-> Px(1)],
           [x |-> Px(2^24 + 2), y |-> 0, width |-> Px(10), height |-> Px(1)],
           [x |-> Px(2^24 + 2), y |-> Px(1), width |-> Px(10), height |-> Px(1)] }

ItemCommands ==
    { SolidColor(color_of(c), rect) : c \in {"red", "blue"}, rect \in ItemRects }

InitPaintItem ==
    /\ pc = "painting"
    /\ dom = NoTree
    /\ stylesheet = <<>>
    /\ styled_node = NoTree
    /\ containing_block = ZeroDimensions
    /\ layout_root = NoTree
    /\ layout_calls = 0
    /\ bounds = ZeroRect
    /\ display_list \in SeqsUpTo(ItemCommands, MaxItems) \ {<<>>}
    /\ canvas \in ItemCanvases

\* canvas.paint_item(&item) for the next command; a panic aborts the caller
PaintItem ==
    /\ pc = "painting"
    /\ LET item == Head(display_list)
       IN  IF paint_item_panics(canvas, item)
           THEN /\ canvas' = paint_item_unwound(canvas, item)
                /\ pc' = "aborted"
           ELSE /\ canvas' = paint_item(canvas, item)
                /\ pc' = IF Tail(display_list) = <<>> THEN "painted" ELSE "painting"
    /\ display_list' = Tail(display_list)
    /\ UNCHANGED <<dom, stylesheet, styled_node, containing_block, layout_root,
                   layout_calls, bounds>>

NextPaintItem == PaintItem

SpecPaintItem == InitPaintItem /\ [][NextPaintItem]_vars

(***************************************************************************)
(* Vocabulary of the paint_item properties                                 *)
(***************************************************************************)
\* an edge clamped to [0, limit] (limit in pixels) and truncated toward zero
Clipped(edge, limit) == as_usize(clamp(edge, 0, 2 * limit))

\* the indices of the pixels (x, y) with x0 <= x < x1 and y0 <= y < y1, the
\* edges of the rectangle being clipped to the width and height of the canvas
ClippedRegion(cv, rect) ==
    { x + y * cv.width :
        x \in Clipped(rect.x, cv.width)..(Clipped(rect.x + rect.width, cv.width) - 1),
        y \in Clipped(rect.y, cv.height)..(Clipped(rect.y + rect.height, cv.height) - 1) }

\* the step painted the clipped region of the command and nothing else
RasterizedClipped ==
    LET item == Head(display_list)
        region == ClippedRegion(canvas, item.rect)
    IN  /\ canvas'.width = canvas.width
        /\ canvas'.height = canvas.height
        /\ canvas'.pixels.len = canvas.pixels.len
        /\ \A i \in region \cup DOMAIN canvas.pixels.at \cup DOMAIN canvas'.pixels.at :
               index(canvas'.pixels, i) =
                   IF i \in region THEN item.color ELSE index(canvas.pixels, i)

\* the rectangle is wholly outside the canvas or has no positive extent
Degenerate(cv, rect) ==
    \/ rect.width <= 0 \/ rect.height <= 0
    \/ rect.x + rect.width <= 0 \/ rect.y + rect.height <= 0
    \/ rect.x >= 2 * cv.width \/ rect.y >= 2 * cv.height

\* the width and the height of the canvas are values of f32
ExactSize(cv) == as_f32(cv.width) = 2 * cv.width /\ as_f32(cv.height) = 2 * cv.height

\* C16 as stated: paint_item sets to the colour of the command exactly the
\* pixels (x, y) with x0 <= x < x1 and y0 <= y < y1, where x0 and x1 are
\* rect.x and rect.x + rect.width clamped to [0, canvas width] and truncated
\* toward zero, and y0, y1 likewise within [0, canvas height]; every other
\* pixel of the canvas keeps its previous colour.
C16_Rasterization ==
    [][(pc = "painting" /\ pc' # "aborted") => RasterizedClipped]_vars

\* what does hold of paint_item: the same, on the canvases whose width and
\* height are values of f32
C16_RasterizationExactSize ==
    [][(pc = "painting" /\ ExactSize(canvas)) =>
           (pc' # "aborted" /\ RasterizedClipped)]_vars

\* C17 as stated: painting never fails on degenerate geometry.  For a canvas
\* of width * height pixels and any rectangle, every index x + y * width that
\* paint_item writes is below width * height (the call does not abort), and a
\* rectangle wholly outside the canvas or of non-positive width or height
\* changes no pixel.
C17_PaintingNeverFails ==
    [][pc = "painting" =>
           LET item == Head(display_list)
           IN  /\ \A i \in written(canvas, item.rect) :
                      i < canvas.width * canvas.height
               /\ pc' # "aborted"
               /\ Degenerate(canvas, item.rect) => canvas'.pixels = canvas.pixels]_vars

\* what does hold of paint_item: a degenerate rectangle changes no pixel, and
\* on a canvas whose width and height are values of f32 no index is past
\* the end
C17_DegenerateOrExactSize ==
    [][pc = "painting" =>
           LET item == Head(display_list)
           IN  /\ Degenerate(canvas, item.rect) =>
                      (pc' # "aborted" /\ canvas'.pixels = canvas.pixels)
               /\ ExactSize(canvas) =>
                      /\ pc' # "aborted"
                      /\ \A i \in written(canvas, item.rect) :
                             i < canvas.width * canvas.height]_vars

(***************************************************************************)
(* RenderKit::render as a state machine: its steps in program order        *)
(***************************************************************************)
RenderRules ==
    { Rule(<<SimpleSelector({"div"}, {}, <<>>)>>, <<Declaration("display", Keyword("block"))>>),
      Rule(<<SimpleSelector({"div"}, {}, <<>>)>>,
           <<Declaration("background", ColorValue("red")),
             Declaration("width", Length(Px(200))),
             Declaration("height", Length(Px(100)))>>),
      Rule(<<SimpleSelector({}, {"x"}, <<>>)>>, <<Declaration("display", Keyword("none"))>>),
      Rule(<<SimpleSelector({}, {}, <<ClassA>>)>>, <<Declaration("display", Keyword("inline"))>>),
      Rule(<<SimpleSelector({"p"}, {}, <<>>)>>,
           <<Declaration("display", Keyword("block")),
             Declaration("background", ColorValue("blue"))>>) }

\* html::parse(html) and css::parse(css) have given the tree and the rules
InitRender ==
    /\ pc = "style"
    /\ dom \in Doms
    /\ stylesheet \in SeqsUpTo(RenderRules, MaxRules)
    /\ styled_node = NoTree
    /\ containing_block = ZeroDimensions
    /\ layout_root = NoTree
    /\ layout_calls = 0
    /\ bounds = ZeroRect
    /\ display_list = <<>>
    /\ canvas = NoCanvas

\* painting::paint(&layout_root, layout_root.dimensions.content), the step of
\* render that follows build_layout_tree
RenderPaint ==
    /\ pc = "built"
    /\ bounds' = layout_root.dimensions.content
    /\ display_list' = build_display_list(layout_root)
    /\ canvas' = paint(layout_root, layout_root.dimensions.content)
    /\ pc' = "painted"
    /\ UNCHANGED <<dom, stylesheet, styled_node, containing_block, layout_root,
                   layout_calls>>

NextRender == StyleTree \/ BuildLayoutTree \/ RenderPaint

SpecRender == InitRender /\ [][NextRender]_vars

\* C10 as stated: in RenderKit::render, style resolution has completed before
\* layout begins, and layout of the whole layout tree has completed before
\* paint begins: once the pass has painted, the styled tree was resolved
\* before the layout tree was built and LayoutBox::layout has run on the root.
C10_PipelineOrder ==
    /\ pc \in {"built", "painted"} => styled_node = style_tree(dom, stylesheet)
    /\ pc = "painted" => layout_calls >= 1

====
